---- MODULE Spec2Model ----
(***************************************************************************)
(* Verification model of pedro-organiza.                                    *)
(*                                                                          *)
(* The specifications share the variables; each leaves the variables of     *)
(* the others at their idle values:                                         *)
(*   Spec        the HTTP apply endpoint (src/api.py startup_apply)         *)
(*   SpecHeld    the same endpoint while a CLI run holds the apply lock     *)
(*   SpecLock    processes running the CLI apply_actions under the lock     *)
(*               (src/backend/apply_service.py, lock_service.py)            *)
(*   SpecIngest  ingestion runs and metadata edits on the staging store     *)
(*               (src/backend/consolidate_music.py analyze_files)           *)
(*   SpecCluster the cluster query over the alias views                     *)
(*               (src/backend/alias_engine.py clusters_as_records)          *)
(*   SpecUf      union-find clusters (src/backend/cluster_service.py)       *)
(*   SpecConf    the confidence of a cluster as a function of its inputs    *)
(*   SpecNorm    normalize_text as a function of its input                  *)
(*               (src/backend/normalization.py)                             *)
(*   SpecSan     sanitize_for_fs as a function of its input                 *)
(*   SpecFpscan  a full scan with fingerprinting (compute_fingerprint)      *)
(*   SpecRunscan the run-scan endpoint and its lock marker                  *)
(*               (src/api.py startup_run_scan)                              *)
(*   SpecPart    the two cluster builders on one set of strong edges        *)
(*               (alias_engine.py, cluster_service.py)                      *)
(***************************************************************************)
EXTENDS Integers, Sequences, FiniteSets, TLC

\* ------------------------------------------------------------------------
\* Bounds
\* ------------------------------------------------------------------------
NumTracks == 2
MaxClock == 1
MaxCap == 1
MaxCalls == 2
NumProcs == 2
NumStaged == 1
MaxOps == 3
NumFiles == 2
NumNodes == 3
MaxUfCalls == 3
MaxSize == 5
MaxCount == 3
MaxPieces == 4
MaxRuns == 3
NumScanned == 2
MaxScanCalls == 2
NumPartNodes == 4
MaxEdges == 3

\* ------------------------------------------------------------------------
\* Program constants and value spaces
\* ------------------------------------------------------------------------
NoCap == -1
NoLock == 0
NoError == "None"

TrackIds == 1..NumTracks
Procs == 1..NumProcs
StagedIds == 1..NumStaged
DbStates == {"unset", "missing", "ok"}

ApplyRunPayload ==
    [apply_deletions : BOOLEAN,
     dry_run         : BOOLEAN,
     max_delete      : {NoCap} \cup (0..MaxCap)]

VARIABLES
    files,        \* store, table files: id -> row (rows that exist)
    disk,         \* ids whose original_path exists on disk
    actions,      \* store, table actions: ids with a pending delete action
    clock,        \* wall clock, in whole seconds
    reports,      \* APPLY_REPORT_DIR: file name (time stamp) -> the number
                  \* of the apply request whose report the file holds
    api_pc,       \* position of the apply request being served
    req,          \* the last apply request received
    run_id,       \* run id of the apply request being served
    plan,         \* list of ApplyFileResult of the request being served
    idx,          \* next plan item of apply_deletions
    uncommitted,  \* ids deleted in the open transaction, not yet committed
    lastReturn,   \* what the last finished apply request returned
    calls,        \* number of apply requests received so far
    lockFile,     \* locks/apply.lock: NoLock or the pid in its payload
    pc,           \* position of each CLI process in apply_actions
    outcome,      \* arguments and result of the last apply_actions call
                  \* that ended or reached its finally block
    asked         \* whether that call prompted for the typed phrase

apiVars == <<clock, reports, api_pc, req, run_id, plan, idx, uncommitted,
             lastReturn, calls>>
storeVars == <<files, disk, actions>>
cliVars == <<pc, outcome, asked>>
VARIABLES
    tree,         \* music tree on disk: path -> the audio file there
    tracks,       \* store, table files as ingestion fills it:
                  \* original_path -> row
    ledger,       \* store, table actions as ingestion fills it: the list
                  \* of its rows
    scan,         \* src, db_mode and no_overwrite of the analyze_files run
                  \* that was the last operation, if it was one
    ops           \* number of operations on the library so far

VARIABLES
    lib,          \* store, table files as the cluster query reads it:
                  \* id -> row
    cc,           \* position and local variables of connected_components
    records       \* what clusters_as_records returned

VARIABLES
    conf          \* size and signals of a cluster, which of them was raised
                  \* last, and the value compute_confidence returns for them

VARIABLES
    parent,       \* UnionFind.parent
    fed,          \* the edges handed to UnionFind.union so far
    uf_calls,     \* number of union and find calls so far
    dup_clusters, \* what build_duplicate_clusters returned
    uf_pc         \* position of build_duplicate_clusters

VARIABLES
    norm          \* a text, what normalize_text returns for it, and what
                  \* it returns for that result

VARIABLES
    san   \* a metadata string and what sanitize_for_fs returns for it

VARIABLES
    fpscan   \* a full scan with fingerprinting: the fingerprinter each file meets, the rows before and after

VARIABLES
    runscan   \* locks/scan.lock and the last request of POST /startup/run-scan with what it returned

VARIABLES
    part   \* a set of strong edges and what the two cluster builders return for it

ingestVars == <<tree, tracks, ledger, scan, ops>>
lateVars == <<norm, san, fpscan, runscan, part>>
clusterVars == <<lib, cc, records>>
ufVars == <<parent, fed, uf_calls, dup_clusters, uf_pc>>
libraryVars == <<ingestVars, clusterVars, ufVars, conf, lateVars>>
vars == <<files, disk, actions, clock, reports, api_pc, req, run_id, plan,
          idx, uncommitted, lastReturn, calls, lockFile, pc, outcome, asked,
          libraryVars>>

\* ------------------------------------------------------------------------
\* Helpers
\* ------------------------------------------------------------------------
Min(S) == CHOOSE m \in S : \A n \in S : m <= n

RECURSIVE OrderById(_)
OrderById(S) == IF S = {} THEN <<>>
                ELSE <<Min(S)>> \o OrderById(S \ {Min(S)})

NewRow == [mark_delete |-> FALSE, delete_mode |-> "quarantine"]

\* an apply request: its payload and the state of the active-store pointer
\* it meets
ApplyRequest(payload, db) == [payload |-> payload, db |-> db]

NoRequest ==
    ApplyRequest([apply_deletions |-> FALSE, dry_run |-> TRUE,
                  max_delete |-> NoCap], "unset")

NoArgs == [dry_run |-> FALSE, permanent_delete |-> FALSE,
           confirm_permanent |-> FALSE]

\* SELECT id, original_path FROM files WHERE mark_delete = 1 ORDER BY id
select_delete_candidates ==
    OrderById({i \in DOMAIN files : files[i].mark_delete})

ApplyFileResult(id, st, err) ==
    [file_id |-> id, planned_action |-> "delete", status |-> st, error |-> err]

\* one pending entry per candidate, in candidate order
build_apply_plan(candidates) ==
    [k \in 1..Len(candidates) |-> ApplyFileResult(candidates[k], "pending", NoError)]

\* the plan of the capped branch: every candidate skipped
build_skipped_plan(candidates) ==
    [k \in 1..Len(candidates) |->
        ApplyFileResult(candidates[k], "skipped", "MAX_DELETE_EXCEEDED")]

\* sum(1 for f in plan if f.status == st)
CountStatus(p, st) == Cardinality({k \in 1..Len(p) : p[k].status = st})

ApplyRunSummary(total, success, failed, skipped) ==
    [total_candidates      |-> total,
     delete_planned_count  |-> total,
     delete_success_count  |-> success,
     delete_failure_count  |-> failed,
     delete_skipped_count  |-> skipped]

ApplyRunReport(rid, payload, dry, summary, fs) ==
    [run_id          |-> rid,
     dry_run         |-> dry,
     apply_deletions |-> payload.apply_deletions,
     max_delete      |-> payload.max_delete,
     summary         |-> summary,
     files           |-> fs]

\* the safety-cap test with the bound off by one
CapExceededOffByOne(max_delete, total) ==
    max_delete # NoCap /\ total > max_delete + 1

\* the safety-cap test of the endpoint
CapExceeded(max_delete, total) == max_delete # NoCap /\ total > max_delete

\* the dry-run test honoured only when deletions were not asked for
IsDryRunUnlessApplying(payload) == payload.dry_run /\ ~payload.apply_deletions

\* the dry-run test of the endpoint
IsDryRun(payload) == payload.dry_run

\* save_apply_report for the report of request number n: the file name is
\* the time stamp taken when saving; open(path, "w") replaces a file of
\* the same name
save_apply_report(n) ==
    [k \in (DOMAIN reports) \cup {clock} |->
        IF k = clock THEN n ELSE reports[k]]

Returned(report) == [kind |-> "report", report |-> report]
Failed(detail) == [kind |-> "error", detail |-> detail]

\* ------------------------------------------------------------------------
\* The HTTP layer (Spec)
\* ------------------------------------------------------------------------

\* PATCH /files/{file_id} with mark_delete in the payload; requests are
\* served one at a time, so not while an apply request is being served
update_file(id, md) ==
    /\ api_pc = "idle"
    /\ id \in DOMAIN files
    /\ files[id].mark_delete # md
    /\ files' = [files EXCEPT ![id].mark_delete = md]
    /\ UNCHANGED <<disk, actions, apiVars, lockFile, cliVars, libraryVars>>

\* time passes
Tick ==
    /\ clock < MaxClock
    /\ clock' = clock + 1
    /\ UNCHANGED <<storeVars, reports, api_pc, req, run_id, plan, idx,
                   uncommitted, lastReturn, calls, lockFile,
                   cliVars, libraryVars>>

\* POST /startup/apply up to the end of phase 4: gates, candidate
\* selection, safety cap, plan, dry run
startup_apply(payload, db) ==
    /\ api_pc = "idle"
    /\ calls < MaxCalls
    /\ calls' = calls + 1
    /\ req' = ApplyRequest(payload, db)
    /\ LET candidates == select_delete_candidates
           total == Len(candidates)
       IN
       IF db = "unset" THEN
            /\ lastReturn' = Failed("MUSIC_DB_NOT_SET")
            /\ UNCHANGED <<reports, api_pc, run_id, plan, idx>>
       ELSE IF ~payload.apply_deletions THEN
            /\ lastReturn' = Failed("apply_deletions must be true")
            /\ UNCHANGED <<reports, api_pc, run_id, plan, idx>>
       ELSE IF db = "missing" THEN
            /\ lastReturn' = Failed("ACTIVE_DB_MISSING")
            /\ UNCHANGED <<reports, api_pc, run_id, plan, idx>>
       ELSE IF CapExceeded(payload.max_delete, total) THEN
            LET report == ApplyRunReport(clock, payload, payload.dry_run,
                              ApplyRunSummary(total, 0, 0, total),
                              build_skipped_plan(candidates))
            IN /\ reports' = save_apply_report(calls + 1)
               /\ lastReturn' = Returned(report)
               /\ UNCHANGED <<api_pc, run_id, plan, idx>>
       ELSE IF IsDryRun(payload) THEN
            LET report == ApplyRunReport(clock, payload, TRUE,
                              ApplyRunSummary(total, 0, 0, 0),
                              build_apply_plan(candidates))
            IN /\ reports' = save_apply_report(calls + 1)
               /\ lastReturn' = Returned(report)
               /\ UNCHANGED <<api_pc, run_id, plan, idx>>
       ELSE
            /\ api_pc' = "executing"
            /\ run_id' = clock
            /\ plan' = build_apply_plan(candidates)
            /\ idx' = 1
            /\ UNCHANGED <<reports, lastReturn>>
    /\ UNCHANGED <<storeVars, clock, uncommitted, lockFile,
                   cliVars, libraryVars>>

\* the except branch recording a status the summary does not count
ItemResultUnknownStatus(item, out) ==
    IF out = "ok" THEN [item EXCEPT !.status = "deleted"]
    ELSE IF out = "rm_fail"
         THEN [item EXCEPT !.status = "error", !.error = "OSError"]
         ELSE [item EXCEPT !.status = "error", !.error = "sqlite3.Error"]

\* one iteration of the loop of apply_deletions on one plan item:
\*   out = "rm_fail"  os.remove raised
\*   out = "db_fail"  os.remove succeeded, the DELETE statement raised
\*   out = "ok"       both succeeded
ItemResult(item, out) ==
    IF out = "ok" THEN [item EXCEPT !.status = "deleted"]
    ELSE IF out = "rm_fail"
         THEN [item EXCEPT !.status = "failed", !.error = "OSError"]
         ELSE [item EXCEPT !.status = "failed", !.error = "sqlite3.Error"]

\* a loop that leaves at the first item that raised
NextItemStopOnFailure(i, out) == IF out = "ok" THEN i + 1 ELSE Len(plan) + 1

\* where the loop of apply_deletions goes after an item
NextItem(i, out) == i + 1

apply_deletions_item(out) ==
    /\ api_pc = "executing"
    /\ idx <= Len(plan)
    /\ LET id == plan[idx].file_id IN
       /\ out # "rm_fail" => id \in disk
       /\ disk' = IF out = "rm_fail" THEN disk ELSE disk \ {id}
       /\ uncommitted' = IF out = "ok" THEN uncommitted \cup {id}
                         ELSE uncommitted
       /\ plan' = [plan EXCEPT ![idx] = ItemResult(plan[idx], out)]
       /\ idx' = NextItem(idx, out)
    /\ UNCHANGED <<files, actions, clock, reports, api_pc, req, run_id,
                   lastReturn, calls, lockFile, cliVars, libraryVars>>

\* the rows left in table files once the open transaction is committed
CommitDeletes(rows, deleted) ==
    [i \in (DOMAIN rows) \ deleted |-> rows[i]]

\* the summary of phase 6
BuildSummary(total, p) ==
    ApplyRunSummary(total, CountStatus(p, "deleted"),
                    CountStatus(p, "failed"), CountStatus(p, "skipped"))

\* conn.commit() at the end of apply_deletions, then phase 6 and the
\* report; a commit that raises leaves the handler through the exception,
\* the connection is closed and its transaction rolled back
startup_apply_finish(commitOk) ==
    /\ api_pc = "executing"
    /\ idx > Len(plan)
    /\ IF commitOk THEN
            LET report == ApplyRunReport(run_id, req.payload, FALSE,
                              BuildSummary(Len(plan), plan), plan)
            IN /\ files' = CommitDeletes(files, uncommitted)
               /\ reports' = save_apply_report(calls)
               /\ lastReturn' = Returned(report)
       ELSE /\ lastReturn' = Failed("INTERNAL")
            /\ UNCHANGED <<files, reports>>
    /\ api_pc' = "idle"
    /\ run_id' = 0
    /\ plan' = <<>>
    /\ idx' = 1
    /\ uncommitted' = {}
    /\ UNCHANGED <<disk, actions, clock, req, calls, lockFile,
                   cliVars, libraryVars>>

\* ------------------------------------------------------------------------
\* The named lock and the CLI apply (SpecLock)
\* ------------------------------------------------------------------------

\* lock_path.exists()
LockExists == lockFile # NoLock

\* release_lock without the unlink
release_lock_keeps_marker(p) ==
    /\ pc[p] = "release"
    /\ pc' = [pc EXCEPT ![p] = "idle"]
    /\ UNCHANGED <<storeVars, apiVars, lockFile, outcome, asked, libraryVars>>

\* release_lock, called from the finally block of apply_actions: unlink of
\* the marker if it exists, whoever wrote it.  The existence test and the
\* unlink are taken as one step: a marker written between them is removed
\* by the unlink all the same, and an unlink of a marker that has gone
\* raises and is swallowed.
release_lock(p) ==
    /\ pc[p] = "release"
    /\ lockFile' = NoLock
    /\ pc' = [pc EXCEPT ![p] = "idle"]
    /\ UNCHANGED <<storeVars, apiVars, outcome, asked, libraryVars>>

Outcome(a, result) == [args |-> a, result |-> result]

\* process p calls apply_actions and acquire_lock tests the marker: if it
\* exists LockError is raised and the call ends, otherwise the process
\* goes on to write the marker
acquire_lock_check(p) ==
    /\ pc[p] = "idle"
    /\ IF LockExists
       THEN /\ outcome' = Outcome(NoArgs, "LockError")
            /\ asked' = FALSE
            /\ UNCHANGED pc
       ELSE /\ pc' = [pc EXCEPT ![p] = "acquire_write"]
            /\ UNCHANGED <<outcome, asked>>
    /\ UNCHANGED <<storeVars, apiVars, lockFile, libraryVars>>

\* lock_path.write_text(payload) with pid = p
acquire_lock_write(p) ==
    /\ pc[p] = "acquire_write"
    /\ lockFile' = p
    /\ pc' = [pc EXCEPT ![p] = "locked"]
    /\ UNCHANGED <<storeVars, apiVars, outcome, asked, libraryVars>>

\* SELECT COUNT(*) FROM actions WHERE action='delete' AND status='pending'
count_permanent_deletes == Cardinality(actions)

\* UPDATE files SET delete_mode='permanent' for the rows staged for delete
FlipDeleteMode(rows) ==
    [i \in DOMAIN rows |->
        IF i \in actions THEN [rows[i] EXCEPT !.delete_mode = "permanent"]
        ELSE rows[i]]

\* the executor: a dry run changes nothing; a real run works through the
\* pending delete actions, those in done succeed (the file leaves its
\* original path, the row of a permanent delete is removed), the others
\* fail and keep file and row; every action leaves the pending state
execute_actions(rows, dry_run, done) ==
    IF dry_run
    THEN [files |-> rows, disk |-> disk, actions |-> actions]
    ELSE [files   |-> [i \in {j \in DOMAIN rows :
                               ~(j \in done /\ rows[j].delete_mode = "permanent")}
                          |-> rows[i]],
          disk    |-> disk \ done,
          actions |-> {}]

ArgSpace ==
    [dry_run : BOOLEAN, permanent_delete : BOOLEAN, confirm_permanent : BOOLEAN]

\* what the process meets while it runs the body of apply_actions: the
\* first call that raises or the prompt answered with another line, if
\* any.  The body stops at the first of them, so one fault per run covers
\* every combination
Faults ==
    {"none", "db_unset", "db_missing", "trash_invalid", "typed_other",
     "schema_raises", "connect_raises", "update_raises", "executor_raises"}

\* the try block of apply_actions, from load_config to the return of the
\* executor's summary, with the arguments a of the call (first read here);
\* every way out leads to the finally block
apply_actions_body(p, a, fault, done) ==
    /\ pc[p] = "locked"
    /\ LET prompt == a.permanent_delete /\ count_permanent_deletes > 0
                       /\ ~a.confirm_permanent
           flips == a.permanent_delete /\ ~a.dry_run
           Raise(e) == /\ outcome' = Outcome(a, e)
                       /\ asked' = FALSE
                       /\ done = {}
                       /\ UNCHANGED storeVars
       IN
       IF fault = "db_unset" THEN Raise("NO_ACTIVE_DB")
       ELSE IF fault = "db_missing" THEN Raise("ACTIVE_DB_NOT_FOUND")
       ELSE IF fault = "trash_invalid" THEN Raise("INVALID_TRASH_ROOT")
       ELSE IF a.permanent_delete /\ ~a.confirm_permanent
            THEN Raise("PERMANENT_DELETE_REQUIRES_CONFIRMATION")
       ELSE IF prompt /\ fault = "typed_other" THEN
            /\ asked' = TRUE
            /\ outcome' = Outcome(a, "aborted")
            /\ done = {}
            /\ UNCHANGED storeVars
       ELSE
            /\ asked' = prompt
            /\ IF fault = "schema_raises" THEN
                    /\ outcome' = Outcome(a, "SCHEMA_UPDATE_FAILED")
                    /\ done = {}
                    /\ UNCHANGED storeVars
               ELSE IF flips /\ fault = "connect_raises" THEN
                    /\ outcome' = Outcome(a, "DB_CONNECTION_FAILED")
                    /\ done = {}
                    /\ UNCHANGED storeVars
               ELSE IF flips /\ fault = "update_raises" THEN
                    /\ outcome' = Outcome(a, "sqlite3.OperationalError")
                    /\ done = {}
                    /\ UNCHANGED storeVars
               ELSE
                    LET rows == IF flips THEN FlipDeleteMode(files) ELSE files
                        after == execute_actions(rows, a.dry_run, done)
                    IN IF fault = "executor_raises" THEN
                            /\ outcome' = Outcome(a, "EXECUTOR_FAILED")
                            /\ done = {}
                            /\ files' = rows
                            /\ UNCHANGED <<disk, actions>>
                       ELSE /\ outcome' = Outcome(a, "summary")
                            /\ done \subseteq actions \cap disk
                            /\ a.dry_run => done = {}
                            /\ files' = after.files
                            /\ disk' = after.disk
                            /\ actions' = after.actions
    /\ pc' = [pc EXCEPT ![p] = "release"]
    /\ UNCHANGED <<apiVars, lockFile, libraryVars>>

cliInit ==
    /\ pc = [p \in Procs |-> "idle"]
    /\ outcome = Outcome(NoArgs, "none")
    /\ asked = FALSE

apiInit ==
    /\ clock = 0
    /\ reports = <<>>
    /\ api_pc = "idle"
    /\ req = NoRequest
    /\ run_id = 0
    /\ plan = <<>>
    /\ idx = 1
    /\ uncommitted = {}
    /\ lastReturn = [kind |-> "none"]
    /\ calls = 0

\* no ingestion has run
ingestIdle ==
    /\ tree = <<>>
    /\ tracks = <<>>
    /\ ledger = <<>>
    /\ scan = [db_mode |-> "none", no_overwrite |-> FALSE, src |-> ""]
    /\ ops = 0

\* no cluster query has been made
clusterIdle ==
    /\ lib = <<>>
    /\ cc = [pc |-> "idle", graph |-> <<>>, iter |-> {}, visited |-> {},
             stack |-> <<>>, component |-> {}, clusters |-> <<>>]
    /\ records = <<>>

\* no UnionFind has been made
ufIdle ==
    /\ parent = <<>>
    /\ fed = {}
    /\ uf_calls = 0
    /\ dup_clusters = <<>>
    /\ uf_pc = "feeding"

\* no confidence has been computed
confIdle == conf = [raised |-> "none"]

\* normalize_text has not been called on its own
normIdle == norm = [pc |-> "idle"]

sanIdle == san = [pc |-> "idle"]

fpscanIdle == fpscan = [pc |-> "idle"]

runscanIdle == runscan = [pc |-> "idle"]

partIdle == part = [pc |-> "idle"]

lateIdle ==
    /\ normIdle
    /\ sanIdle
    /\ fpscanIdle
    /\ runscanIdle
    /\ partIdle

libraryIdle ==
    /\ ingestIdle
    /\ clusterIdle
    /\ ufIdle
    /\ confIdle
    /\ lateIdle

\* the store after a scan: every track has its row and its file; no lock
\* marker
Init ==
    /\ files = [i \in TrackIds |-> NewRow]
    /\ disk = TrackIds
    /\ actions = {}
    /\ lockFile = NoLock
    /\ apiInit
    /\ cliInit
    /\ libraryIdle

\* the same store while a CLI apply run of process 1 holds the lock marker
InitHeld ==
    /\ files = [i \in TrackIds |-> NewRow]
    /\ disk = TrackIds
    /\ actions = {}
    /\ lockFile = 1
    /\ apiInit
    /\ cliInit
    /\ libraryIdle

Next ==
    \/ \E id \in TrackIds, md \in BOOLEAN : update_file(id, md)
    \/ Tick
    \/ \E payload \in ApplyRunPayload, db \in DbStates : startup_apply(payload, db)
    \/ \E out \in {"rm_fail", "db_fail", "ok"} : apply_deletions_item(out)
    \/ \E commitOk \in BOOLEAN : startup_apply_finish(commitOk)

Spec == Init /\ [][Next]_vars

\* the endpoint serving requests while the apply lock is held
SpecHeld == InitHeld /\ [][Next]_vars

\* the store with any set of delete actions staged, no lock marker
InitLock ==
    /\ files = [i \in StagedIds |-> NewRow]
    /\ disk = StagedIds
    /\ actions \in SUBSET StagedIds
    /\ lockFile = NoLock
    /\ apiInit
    /\ cliInit
    /\ libraryIdle

NextLock ==
    \/ \E p \in Procs : acquire_lock_check(p)
    \/ \E p \in Procs : acquire_lock_write(p)
    \/ \E p \in Procs, a \in ArgSpace, fault \in Faults,
          done \in SUBSET StagedIds :
            apply_actions_body(p, a, fault, done)
    \/ \E p \in Procs : release_lock(p)

SpecLock == InitLock /\ [][NextLock]_vars

\* ------------------------------------------------------------------------
\* Properties of the HTTP apply endpoint (Spec)
\* ------------------------------------------------------------------------

\* the delete-flagged tracks of the store
Flagged == {i \in DOMAIN files : files[i].mark_delete}

\* a step in which an apply request is received
ApplyReceived == calls' = calls + 1

\* the request passes the gates before candidate selection
PassesGates(r) == r.payload.apply_deletions /\ r.db = "ok"

\* the endpoint's run ends in this step
RunEnds == api_pc = "executing" /\ api_pc' = "idle"

AllStatus(fs, st) == \A k \in 1..Len(fs) : fs[k].status = st

ListsExactly(fs, ids) ==
    /\ Len(fs) = Cardinality(ids)
    /\ {fs[k].file_id : k \in 1..Len(fs)} = ids

\* C1: an apply request whose max_delete is set and exceeded by the number
\* of delete-flagged tracks removes no file, changes no track row, and
\* returns at once a report that lists every candidate as skipped, with
\* delete_skipped_count = total_candidates and delete_success_count = 0.
C1_CapAbortsWithoutMutation ==
    [][(/\ ApplyReceived
        /\ PassesGates(req')
        /\ req'.payload.max_delete # NoCap
        /\ Cardinality(Flagged) > req'.payload.max_delete)
       => (/\ files' = files
           /\ disk' = disk
           /\ api_pc' = "idle"
           /\ lastReturn'.kind = "report"
           /\ ListsExactly(lastReturn'.report.files, Flagged)
           /\ AllStatus(lastReturn'.report.files, "skipped")
           /\ lastReturn'.report.summary.total_candidates = Cardinality(Flagged)
           /\ lastReturn'.report.summary.delete_skipped_count
                 = Cardinality(Flagged)
           /\ lastReturn'.report.summary.delete_success_count = 0)]_vars

C1_Witness ==
    /\ lastReturn.kind = "report"
    /\ lastReturn.report.max_delete # NoCap
    /\ lastReturn.report.summary.total_candidates = NumTracks
    /\ lastReturn.report.summary.delete_skipped_count = NumTracks
    /\ disk = TrackIds
    /\ Flagged = TrackIds

\* C2 as stated: an apply request with dry_run = true removes no file,
\* changes no track row and returns a report that lists every candidate as
\* pending, whatever the number of candidates.
C2_DryRunAlwaysPending ==
    [][(/\ ApplyReceived
        /\ PassesGates(req')
        /\ req'.payload.dry_run)
       => (/\ files' = files
           /\ disk' = disk
           /\ api_pc' = "idle"
           /\ lastReturn'.kind = "report"
           /\ ListsExactly(lastReturn'.report.files, Flagged)
           /\ AllStatus(lastReturn'.report.files, "pending"))]_vars

\* C2 amended: an apply request with dry_run = true that passes the gates
\* removes no file, changes no track row and returns at once a report that
\* lists every candidate; the candidates are pending unless max_delete is
\* set and exceeded, and skipped when it is.
C2_DryRunPurity ==
    [][(/\ ApplyReceived
        /\ PassesGates(req')
        /\ req'.payload.dry_run)
       => (/\ files' = files
           /\ disk' = disk
           /\ api_pc' = "idle"
           /\ lastReturn'.kind = "report"
           /\ lastReturn'.report.dry_run
           /\ ListsExactly(lastReturn'.report.files, Flagged)
           /\ IF /\ req'.payload.max_delete # NoCap
                 /\ Cardinality(Flagged) > req'.payload.max_delete
              THEN AllStatus(lastReturn'.report.files, "skipped")
              ELSE AllStatus(lastReturn'.report.files, "pending"))]_vars

C2_Witness ==
    /\ lastReturn.kind = "report"
    /\ lastReturn.report.dry_run
    /\ Len(lastReturn.report.files) = NumTracks
    /\ AllStatus(lastReturn.report.files, "pending")
    /\ disk = TrackIds
    /\ Flagged = TrackIds

\* C3 as stated: when a real apply run ends, every planned item is either
\* deleted with its file gone and its row gone, or failed with its file
\* still on disk and its row still in the store.
C3_StatusFileRowAgree ==
    [][RunEnds =>
        \A k \in 1..Len(plan) :
            \/ /\ plan[k].status = "deleted"
               /\ plan[k].file_id \notin disk'
               /\ plan[k].file_id \notin DOMAIN files'
            \/ /\ plan[k].status = "failed"
               /\ plan[k].file_id \in disk'
               /\ plan[k].file_id \in DOMAIN files']_vars

\* C4: in a real apply run an item whose os.remove raises is marked failed
\* with its error and the loop goes on to the next item; when the run ends
\* every planned item has been attempted, the row of each such item is
\* still in the store, and the report returned lists it as failed.
C4_PartialFailureIsolation ==
    [][/\ (/\ api_pc = "executing"
           /\ api_pc' = "executing"
           /\ plan' # plan
           /\ disk' = disk)
          => (/\ idx' = idx + 1
              /\ Len(plan') = Len(plan)
              /\ plan'[idx].status = "failed"
              /\ plan'[idx].error # NoError
              /\ files' = files
              /\ \A k \in 1..Len(plan) : k # idx => plan'[k] = plan[k])
       /\ RunEnds
          => (/\ \A k \in 1..Len(plan) :
                    /\ plan[k].status \in {"deleted", "failed"}
                    /\ plan[k].error = "OSError"
                          => /\ plan[k].status = "failed"
                             /\ plan[k].file_id \in DOMAIN files'
              /\ lastReturn'.kind = "report"
                    => lastReturn'.report.files = plan)]_vars

C4_Witness ==
    /\ lastReturn.kind = "report"
    /\ ~lastReturn.report.dry_run
    /\ Len(lastReturn.report.files) = NumTracks
    /\ lastReturn.report.files[1].status = "failed"
    /\ lastReturn.report.files[1].error = "OSError"
    /\ lastReturn.report.files[NumTracks].status = "deleted"
    /\ 1 \in DOMAIN files
    /\ NumTracks \notin DOMAIN files

\* C6 as stated, for the endpoint: an apply request received while the
\* apply lock marker exists is rejected with a concurrency error and
\* changes nothing.
C6_ApplyRejectedWhileLocked ==
    [][(ApplyReceived /\ lockFile # NoLock)
       => (/\ lastReturn'.kind = "error"
           /\ lastReturn'.detail = "CONCURRENCY"
           /\ api_pc' = "idle"
           /\ UNCHANGED <<files, disk, lockFile>>)]_vars

\* C9 as stated: the artifact of an invocation is never replaced by that of
\* a later invocation.
C9_ReportsAppendOnly ==
    [][\A k \in DOMAIN reports :
          k \in DOMAIN reports' /\ reports'[k] = reports[k]]_vars

\* the per-item entries of report r with status st
Entries(r, st) == {k \in 1..Len(r.files) : r.files[k].status = st}

\* report r is that of a real run: not a dry run, cap not exceeded
IsRealRun(r) ==
    /\ ~r.dry_run
    /\ ~(r.max_delete # NoCap /\ r.summary.total_candidates > r.max_delete)

CountsConsistent(r) ==
    /\ r.summary.delete_success_count = Cardinality(Entries(r, "deleted"))
    /\ r.summary.delete_failure_count = Cardinality(Entries(r, "failed"))
    /\ r.summary.delete_skipped_count = Cardinality(Entries(r, "skipped"))
    /\ r.summary.total_candidates = Len(r.files)
    /\ r.summary.delete_success_count + r.summary.delete_failure_count
         + r.summary.delete_skipped_count = r.summary.total_candidates

\* C10: in the report of every real apply run each summary count is the
\* number of entries with that final status, and success + failure +
\* skipped = total_candidates = number of entries.
C10_SummaryCountsConsistent ==
    lastReturn.kind = "report" /\ IsRealRun(lastReturn.report)
       => CountsConsistent(lastReturn.report)

C10_Witness ==
    /\ lastReturn.kind = "report"
    /\ IsRealRun(lastReturn.report)
    /\ lastReturn.report.summary.delete_success_count = 1
    /\ lastReturn.report.summary.delete_failure_count = NumTracks - 1

\* ------------------------------------------------------------------------
\* Properties of the lock and of the CLI apply (SpecLock)
\* ------------------------------------------------------------------------

\* the processes between a successful acquire_lock and their release_lock
InLockedSection == {p \in Procs : pc[p] \in {"locked", "release"}}

\* C5 as stated: at most one process at a time is between a successful
\* acquire and its release.
C5_MutualExclusion == Cardinality(InLockedSection) <= 1

C8_PromptsForTypedPhrase ==
    [][\A p \in Procs :
          (/\ pc[p] = "locked"
           /\ pc'[p] = "release"
           /\ outcome'.args.permanent_delete
           /\ ~outcome'.args.confirm_permanent
           /\ count_permanent_deletes > 0
           /\ outcome'.result \notin
                 {"NO_ACTIVE_DB", "ACTIVE_DB_NOT_FOUND", "INVALID_TRASH_ROOT"})
          => (/\ asked'
              /\ outcome'.result = "aborted" => UNCHANGED storeVars)]_vars

\* ========================================================================
\* Text normalization (src/backend/normalization.py)
\*
\* A text is a sequence of characters; a character is written as itself
\* when it is ASCII and by its code point ("U+00E9") when it is not.
\* ========================================================================

\* SQL NULL / Python None in a text column
NULL == <<"NULL">>

UPPER == <<"A", "B", "C", "D", "E", "F", "G", "H", "I", "J", "K", "L", "M",
           "N", "O", "P", "Q", "R", "S", "T", "U", "V", "W", "X", "Y", "Z">>
LOWER == <<"a", "b", "c", "d", "e", "f", "g", "h", "i", "j", "k", "l", "m",
           "n", "o", "p", "q", "r", "s", "t", "u", "v", "w", "x", "y", "z">>
DIGITS == {"0", "1", "2", "3", "4", "5", "6", "7", "8", "9"}

\* U+00E9 e-acute, U+0301 combining acute, U+00F0 eth, U+00D0 capital eth,
\* U+0E23 and U+0E10 Thai letters, U+0090 a C1 control character
NonAscii == {"U+00E9", "U+0301", "U+00F0", "U+00D0", "U+0E23", "U+0E10",
             "U+0090"}
Combining == {"U+0301"}

\* unicodedata.normalize("NFKD", c) of one character
NFKD(c) == IF c = "U+00E9" THEN <<"e", "U+0301">> ELSE <<c>>

NOISE_TOKENS ==
    {<<"r", "e", "m", "a", "s", "t", "e", "r">>,
     <<"r", "e", "m", "a", "s", "t", "e", "r", "e", "d">>,
     <<"m", "o", "n", "o">>,
     <<"s", "t", "e", "r", "e", "o">>,
     <<"v", "e", "r", "s", "i", "o", "n">>,
     <<"e", "d", "i", "t">>,
     <<"m", "i", "x">>,
     <<"d", "e", "l", "u", "x", "e">>,
     <<"e", "x", "p", "a", "n", "d", "e", "d">>,
     <<"a", "n", "n", "i", "v", "e", "r", "s", "a", "r", "y">>,
     <<"e", "d", "i", "t", "i", "o", "n">>}

\* the keys of TRANSLITERATION_MAP as the source file spells them, in
\* insertion order; every key maps to "d"
TRANSLITERATION_MAP == << <<"U+0E23", "U+0E10">>, <<"U+0E23", "U+0090">> >>

RE_PUNCTUATION == {"\"", "'", ".", ",", ":", ";", "!", "?", "(", ")", "[",
                   "]", "{", "}"}
RE_SEPARATORS == {"-", "_", "/"}
RE_WHITESPACE == {" ", "\t", "\n"}

\* unicodedata.normalize("NFKD", value)
RECURSIVE Decompose(_)
Decompose(s) ==
    IF s = <<>> THEN <<>>
    ELSE IF Len(s) = 1 THEN NFKD(s[1])
    ELSE LET h == Len(s) \div 2
         IN  Decompose(SubSeq(s, 1, h)) \o Decompose(SubSeq(s, h + 1, Len(s)))

IsPrefix(k, s) == Len(k) <= Len(s) /\ SubSeq(s, 1, Len(k)) = k

\* str.replace(src, dst): leftmost non-overlapping occurrences
RECURSIVE Replace(_, _, _)
Replace(s, src, dst) ==
    IF s = <<>> THEN <<>>
    ELSE IF IsPrefix(src, s)
         THEN dst \o Replace(SubSeq(s, Len(src) + 1, Len(s)), src, dst)
         ELSE <<Head(s)>> \o Replace(Tail(s), src, dst)

RECURSIVE Transliterate(_, _)
Transliterate(s, i) ==
    IF i > Len(TRANSLITERATION_MAP) THEN s
    ELSE Transliterate(Replace(s, TRANSLITERATION_MAP[i], <<"d">>), i + 1)

ToLower(c) == IF \E i \in 1..Len(UPPER) : UPPER[i] = c
              THEN LOWER[CHOOSE i \in 1..Len(UPPER) : UPPER[i] = c]
              ELSE c

\* RE_WHITESPACE.sub(" ", text).strip(): runs of white space become one
\* blank, leading and trailing white space goes
RECURSIVE Collapse(_, _)
Collapse(s, pending) ==
    IF s = <<>> THEN <<>>
    ELSE IF Head(s) \in RE_WHITESPACE THEN Collapse(Tail(s), TRUE)
         ELSE (IF pending THEN <<" ">> ELSE <<>>) \o <<Head(s)>>
              \o Collapse(Tail(s), FALSE)

Strip(s) == LET t == Collapse(s, FALSE)
            IN  IF t # <<>> /\ Head(t) = " " THEN Tail(t) ELSE t

\* text.split(" ")
RECURSIVE Split(_, _)
Split(s, cur) ==
    IF s = <<>> THEN <<cur>>
    ELSE IF Head(s) = " " THEN <<cur>> \o Split(Tail(s), <<>>)
         ELSE Split(Tail(s), Append(cur, Head(s)))

RECURSIVE Join(_)
Join(ws) == IF ws = <<>> THEN <<>>
            ELSE IF Len(ws) = 1 THEN ws[1]
                 ELSE ws[1] \o <<" ">> \o Join(Tail(ws))

DigitsOnly_any_digit(t) == \E i \in 1..Len(t) : t[i] \in DIGITS

\* RE_DIGITS_ONLY.match(token)
DigitsOnly(t) == t # <<>> /\ \A i \in 1..Len(t) : t[i] \in DIGITS

normalize_text_filters_first(value) ==
    IF value = NULL \/ value = <<>> THEN <<>>
    ELSE LET IsBase(c) == c \notin Combining
             IsAscii(c) == c \notin NonAscii
             unmarked == SelectSeq(Decompose(value), IsBase)
             ascii == SelectSeq(Transliterate(unmarked, 1), IsAscii)
             lower == [i \in 1..Len(ascii) |-> ToLower(ascii[i])]
             tokens == Split(Strip(lower), <<>>)
             has_numeric_token ==
                 \E i \in 1..Len(tokens) : DigitsOnly(tokens[i])
             Wanted(t) == /\ ~DigitsOnly(t)
                          /\ ~(has_numeric_token /\ t \in NOISE_TOKENS)
             kept == Join(SelectSeq(tokens, Wanted))
             spaced == [i \in 1..Len(kept) |->
                          IF kept[i] \in RE_PUNCTUATION \cup RE_SEPARATORS
                          THEN " " ELSE kept[i]]
         IN  Strip(spaced)

normalize_text(value) ==
    IF value = NULL \/ value = <<>> THEN <<>>
    ELSE LET IsBase(c) == c \notin Combining
             IsAscii(c) == c \notin NonAscii
             unmarked == SelectSeq(Decompose(value), IsBase)
             ascii == SelectSeq(Transliterate(unmarked, 1), IsAscii)
             lower == [i \in 1..Len(ascii) |-> ToLower(ascii[i])]
             spaced == [i \in 1..Len(lower) |->
                          IF lower[i] \in RE_PUNCTUATION \cup RE_SEPARATORS
                          THEN " " ELSE lower[i]]
             text == Strip(spaced)
         IN  IF text = <<>> THEN <<>>
             ELSE LET tokens == Split(text, <<>>)
                      has_numeric_token ==
                          \E i \in 1..Len(tokens) : DigitsOnly(tokens[i])
                      Wanted(t) == /\ ~DigitsOnly(t)
                                   /\ ~(has_numeric_token
                                        /\ t \in NOISE_TOKENS)
                  IN  Strip(Join(SelectSeq(tokens, Wanted)))

\* ========================================================================
\* Ingestion (src/backend/consolidate_music.py analyze_files) and the
\* metadata edits of the API (src/api.py update_file, bulk_update_files)
\*
\* A row of table files carries the columns id, sha256, size_bytes, artist
\* and artist_norm.  artist stands for the twenty columns the upsert merges
\* with one and the same CASE expression, artist_norm for the four *_norm
\* columns normalize_file_row writes.
\* ========================================================================
Paths == {"m/a.mp3", "m/b/c.mp3"}
\* the audio files of the model, each a sequence of bytes: one without an
\* artist tag and two tagged ones
Contents == {<<0>>, <<0, 1>>, <<1, 1>>}
TagValues == {NULL, <<"A", "b">>, <<"X", "-">>}
ALLOWED_DB_MODES == {"full", "schema-only", "db-update-only",
                     "normalize-only"}
NoSrc == ""
SrcChoices == {NoSrc, "m", "m/b"}

Trees == UNION {[S -> Contents] : S \in SUBSET Paths}

\* the tags Mutagen reads from the bytes of a file
extract_tags(bytes) ==
    [artist |-> IF bytes = <<0, 1>> THEN <<"A", "b">>
                ELSE IF bytes = <<1, 1>> THEN <<"X", "-">>
                ELSE NULL]

NoScan == [db_mode |-> "none", no_overwrite |-> FALSE, src |-> NoSrc]

applyVars == <<storeVars, apiVars, lockFile, cliVars>>
notIngest == <<applyVars, clusterVars, ufVars, conf, lateVars>>

\* Path(src).rglob("*") filtered by is_audio_file
audio_list(src) ==
    {p \in DOMAIN tree : \/ src = "m"
                         \/ src = "m/b" /\ p = "m/b/c.mp3"}

sha256_file(bytes) == <<"sha256">> \o bytes
st_size(bytes) == Len(bytes)

\* a value bound to a "?" of a statement or written in it, with its SQLite
\* storage class; values of different storage classes are never equal
SqlText(s) == [class |-> "text", v |-> s]
SqlInteger(n) == [class |-> "integer", v |-> n]
SqlEq(a, b) == a.class = b.class /\ a.v = b.v

overwrite_mode(no_overwrite) ==
    IF no_overwrite THEN "no-overwrite" ELSE "overwrite"

COALESCE_excluded(a, b) == a

COALESCE(a, b) == IF a # NULL THEN a ELSE b

\* CASE WHEN excluded.f IS NOT NULL AND ( ? = 0 OR f IS NULL )
\*      THEN excluded.f ELSE f END
merge_field(stored, observed, flag) ==
    IF observed # NULL /\ (SqlEq(flag, SqlInteger(0)) \/ stored = NULL)
    THEN observed
    ELSE stored

normalize_file_row(row) ==
    [row EXCEPT !.artist_norm = normalize_text(row.artist)]

is_new_always(table, p) == TRUE

\* "SELECT id, lifecycle_state FROM files WHERE original_path=?" finds no
\* row
is_new(table, p) == p \notin DOMAIN table

\* one turn of the loop of analyze_files: hash, upsert, normalise, stage;
\* the number of the operation stands for the time stamp utcnow() returns
ingest_file(st, p, db_mode, no_overwrite, create_actions) ==
    LET meta == extract_tags(tree[p])
        sha == IF db_mode # "db-update-only" THEN sha256_file(tree[p])
               ELSE NULL
        new == is_new(st.rows, p)
        flag == SqlText(overwrite_mode(no_overwrite))
        inserted == [id          |-> Cardinality(DOMAIN st.rows) + 1,
                     sha256      |-> sha,
                     size_bytes  |-> st_size(tree[p]),
                     artist      |-> meta.artist,
                     artist_norm |-> NULL]
        updated == LET old == st.rows[p]
                   IN  [old EXCEPT
                          !.sha256 = COALESCE(sha, old.sha256),
                          !.size_bytes = st_size(tree[p]),
                          !.artist = merge_field(old.artist, meta.artist,
                                                 flag)]
        row == normalize_file_row(IF p \in DOMAIN st.rows THEN updated
                                  ELSE inserted)
    IN  [rows   |-> [q \in DOMAIN st.rows \cup {p} |->
                        IF q = p THEN row ELSE st.rows[q]],
         ledger |-> IF new /\ db_mode = "full" /\ create_actions
                    THEN Append(st.ledger, [file_id    |-> row.id,
                                            action     |-> "move",
                                            src_path   |-> p,
                                            created_at |-> ops + 1])
                    ELSE st.ledger]

RECURSIVE ingest_all(_, _, _, _, _)
ingest_all(st, todo, db_mode, no_overwrite, create_actions) ==
    IF todo = <<>> THEN st
    ELSE ingest_all(ingest_file(st, Head(todo), db_mode, no_overwrite,
                                create_actions),
                    Tail(todo), db_mode, no_overwrite, create_actions)

\* the orders in which rglob may yield the files of S
Orders(S) == {o \in [1..Cardinality(S) -> S] :
                 \A i, j \in DOMAIN o : i # j => o[i] # o[j]}

analyze_files(src, db_mode, no_overwrite, create_actions) ==
    /\ ops < MaxOps
    /\ ops' = ops + 1
    /\ scan' = [db_mode |-> db_mode, no_overwrite |-> no_overwrite,
                src |-> src]
    /\ IF db_mode = "schema-only" \/ src = NoSrc
       THEN \* schema migration only, or RuntimeError: src must be provided
            UNCHANGED <<tracks, ledger>>
       ELSE \E order \in Orders(audio_list(src)) :
               LET st == ingest_all([rows |-> tracks, ledger |-> ledger],
                                    order, db_mode, no_overwrite,
                                    create_actions)
               IN  /\ tracks' = st.rows
                   /\ ledger' = st.ledger
    /\ UNCHANGED <<tree, notIngest>>

\* the user adds, replaces or retags an audio file of the tree
write_file(p, f) ==
    /\ ops < MaxOps
    /\ ops' = ops + 1
    /\ scan' = NoScan
    /\ tree' = [q \in DOMAIN tree \cup {p} |-> IF q = p THEN f ELSE tree[q]]
    /\ UNCHANGED <<tracks, ledger, notIngest>>

\* PATCH /files/{file_id} with payload {artist: v}
update_file_artist(file_id, v) ==
    /\ ops < MaxOps
    /\ ops' = ops + 1
    /\ tracks' = [p \in DOMAIN tracks |->
                  IF tracks[p].id = file_id
                  THEN [tracks[p] EXCEPT !.artist = v]
                  ELSE tracks[p]]
    /\ scan' = NoScan
    /\ UNCHANGED <<tree, ledger, notIngest>>

\* PATCH /files/bulk with payload {ids, fields: {artist: v}}
bulk_update_files(ids, v) ==
    /\ ops < MaxOps
    /\ ops' = ops + 1
    /\ ids # {}
    /\ tracks' = [p \in DOMAIN tracks |->
                  IF tracks[p].id \in ids
                  THEN [tracks[p] EXCEPT !.artist = v]
                  ELSE tracks[p]]
    /\ scan' = NoScan
    /\ UNCHANGED <<tree, ledger, notIngest>>

applyIdle ==
    /\ files = <<>>
    /\ disk = {}
    /\ actions = {}
    /\ lockFile = NoLock
    /\ apiInit
    /\ cliInit

\* an empty store next to any music tree
InitIngest ==
    /\ tree \in Trees
    /\ tracks = <<>>
    /\ ledger = <<>>
    /\ scan = NoScan
    /\ ops = 0
    /\ applyIdle
    /\ clusterIdle
    /\ ufIdle
    /\ confIdle
    /\ lateIdle

FileIds == 1..Cardinality(Paths)

NextIngest ==
    \/ \E src \in SrcChoices, db_mode \in ALLOWED_DB_MODES,
          no_overwrite \in BOOLEAN, create_actions \in BOOLEAN :
            analyze_files(src, db_mode, no_overwrite, create_actions)
    \/ \E p \in Paths, f \in Contents : write_file(p, f)
    \/ \E file_id \in FileIds, v \in TagValues :
            update_file_artist(file_id, v)
    \/ \E ids \in SUBSET FileIds, v \in TagValues :
            bulk_update_files(ids, v)

SpecIngest == InitIngest /\ [][NextIngest]_vars

\* ========================================================================
\* Alias signals (src/backend/consolidate_music.py ensure_alias_views) and
\* the cluster records of the API (src/backend/alias_engine.py)
\*
\* Strengths are in tenths, confidences in thousandths: every value the
\* views and compute_confidence produce is a multiple of these units.
\* ========================================================================
LibIds == 1..NumFiles
LibPairs == {pr \in LibIds \X LibIds : pr[1] < pr[2]}

HashValues == {NULL, sha256_file(<<0>>)}
FingerprintValues == {NULL, <<"fp">>}
ArtistValues == {NULL, <<"A", "b">>}
AlbumValues == {NULL, <<"L", "P">>}
TitleValues == {NULL, <<"T">>}
\* LENGTH(original_path) of a file in the source root and of one a
\* directory deeper
PathLengths == {7, 9}

\* a row of table files as the views and the alias engine read it
LibRow(sha, fp, artist, album, title, len) ==
    [sha256      |-> sha,
     fingerprint |-> fp,
     artist      |-> artist,
     album       |-> album,
     title       |-> title,
     artist_norm |-> normalize_text(artist),
     album_norm  |-> normalize_text(album),
     title_norm  |-> normalize_text(title),
     path_len    |-> len]

LibRows == {LibRow(sha, fp, artist, album, title, len) :
               sha \in HashValues, fp \in FingerprintValues,
               artist \in ArtistValues, album \in AlbumValues,
               title \in TitleValues, len \in PathLengths}

STRENGTH_SHA256 == 10
STRENGTH_FINGERPRINT == 9
STRENGTH_ARTIST_TITLE == 6
STRENGTH_ALBUM_TITLE == 4
STRONG_SIGNAL_COUNT == 2
STRONG_CONFIDENCE_SCORE == 15
DEFAULT_MIN_SIZE == 2

SIGNAL_TYPES == {"sha256", "fingerprint", "artist_title", "album_title"}

strength(signal_type) ==
    CASE signal_type = "sha256" -> STRENGTH_SHA256
      [] signal_type = "fingerprint" -> STRENGTH_FINGERPRINT
      [] signal_type = "artist_title" -> STRENGTH_ARTIST_TITLE
      [] signal_type = "album_title" -> STRENGTH_ALBUM_TITLE

\* the join condition and WHERE clause of each alias_pairs_* view
signal_holds(signal_type, f1, f2) ==
    CASE signal_type = "sha256" ->
            f1.sha256 = f2.sha256 /\ f1.sha256 # NULL
      [] signal_type = "fingerprint" ->
            f1.fingerprint = f2.fingerprint /\ f1.fingerprint # NULL
      [] signal_type = "artist_title" ->
            /\ f1.artist_norm = f2.artist_norm
            /\ f1.title_norm = f2.title_norm
            /\ f1.artist_norm # <<>>
            /\ f1.title_norm # <<>>
      [] signal_type = "album_title" ->
            /\ f1.album_norm = f2.album_norm
            /\ f1.title_norm = f2.title_norm
            /\ f1.album_norm # <<>>
            /\ f1.title_norm # <<>>

alias_pairs_all(l) ==
    {[file_id |-> pr[1], other_file_id |-> pr[2], signal_type |-> t] :
        <<pr, t>> \in {x \in LibPairs \X SIGNAL_TYPES :
                         signal_holds(x[2], l[x[1][1]], l[x[1][2]])}}

RECURSIVE SumStrength(_)
SumStrength(S) ==
    IF S = {} THEN 0
    ELSE LET r == CHOOSE x \in S : TRUE
         IN  strength(r.signal_type) + SumStrength(S \ {r})

\* GROUP BY file_id, other_file_id
alias_pair_confidence(l) ==
    {[file_id          |-> pr[1],
      other_file_id    |-> pr[2],
      signal_count     |-> Cardinality({r \in alias_pairs_all(l) :
                               <<r.file_id, r.other_file_id>> = pr}),
      confidence_score |-> SumStrength({r \in alias_pairs_all(l) :
                               <<r.file_id, r.other_file_id>> = pr})] :
        pr \in {<<r.file_id, r.other_file_id>> : r \in alias_pairs_all(l)}}

is_strong(c) == \/ c.signal_count >= STRONG_SIGNAL_COUNT
                \/ c.confidence_score >= STRONG_CONFIDENCE_SCORE

alias_strong_edges(l) ==
    {<<c.file_id, c.other_file_id>> :
        c \in {x \in alias_pair_confidence(l) : is_strong(x)}}

\* { file_id: {other_file_id, ...}, ... } over the strong edges E
build_alias_graph(E) ==
    [n \in {e[1] : e \in E} \cup {e[2] : e \in E} |->
        {e[2] : e \in {x \in E : x[1] = n}}
        \cup {e[1] : e \in {x \in E : x[2] = n}}]

\* signal_type -> COUNT(*) over the pairs inside the cluster
aggregate_signals(l, cluster) ==
    [t \in SIGNAL_TYPES |->
        Cardinality({r \in alias_pairs_all(l) :
                        /\ r.signal_type = t
                        /\ r.file_id \in cluster
                        /\ r.other_file_id \in cluster})]

Truthy(v) == v # NULL /\ v # <<>>

\* sum(1 for k in ("artist", "album", "title") if row[k])
meta_score(l, id) == (IF Truthy(l[id].artist) THEN 1 ELSE 0)
                     + (IF Truthy(l[id].album) THEN 1 ELSE 0)
                     + (IF Truthy(l[id].title) THEN 1 ELSE 0)

score_without_id(l, id) == <<0 - meta_score(l, id), l[id].path_len, 0>>

\* the sort key of choose_canonical_candidate
score(l, id) == <<0 - meta_score(l, id), l[id].path_len, id>>

TupleLE_ignores_path(s, t) ==
    \/ s[1] < t[1]
    \/ s[1] = t[1] /\ s[3] <= t[3]

\* comparison of Python tuples
TupleLE(s, t) ==
    \/ s[1] < t[1]
    \/ s[1] = t[1] /\ s[2] < t[2]
    \/ s[1] = t[1] /\ s[2] = t[2] /\ s[3] <= t[3]

\* the rows that sorted(rows, key=score) may put first: sorted is stable
\* and the SELECT returns the rows in any order
canonical_candidates(l, cluster) ==
    {i \in cluster : \A j \in cluster : TupleLE(score(l, i), score(l, j))}

MinOf_keeps_first(a, b) == a

MinOf(a, b) == IF a <= b THEN a ELSE b

compute_confidence_drops_past_cap(size, signals) ==
    LET strong == (IF signals["sha256"] > 0 THEN 500 ELSE 0)
                  + (IF signals["fingerprint"] > 0 THEN 300 ELSE 0)
        meta_hits == signals["artist_title"] + signals["album_title"]
        meta == IF meta_hits * 50 <= 200 THEN meta_hits * 50 ELSE 0
        boost == (IF size >= 3 THEN 50 ELSE 0)
                 + (IF size >= 5 THEN 50 ELSE 0)
    IN  MinOf(strong + meta + boost, 1000)

compute_confidence(size, signals) ==
    LET strong == (IF signals["sha256"] > 0 THEN 500 ELSE 0)
                  + (IF signals["fingerprint"] > 0 THEN 300 ELSE 0)
        meta_hits == signals["artist_title"] + signals["album_title"]
        meta == IF meta_hits > 0 THEN MinOf(200, meta_hits * 50) ELSE 0
        boost == (IF size >= 3 THEN 50 ELSE 0)
                 + (IF size >= 5 THEN 50 ELSE 0)
    IN  MinOf(strong + meta + boost, 1000)

notCluster == <<applyVars, ingestVars, ufVars, conf, lateVars>>

NoWalk == [pc |-> "idle", graph |-> <<>>, iter |-> {}, visited |-> {},
           stack |-> <<>>, component |-> {}, clusters |-> <<>>]

\* clusters_as_records: the graph is built, connected_components starts
clusters_as_records_start ==
    /\ cc.pc = "idle"
    /\ LET graph == build_alias_graph(alias_strong_edges(lib))
       IN  cc' = [cc EXCEPT !.pc = "outer",
                            !.graph = graph,
                            !.iter = DOMAIN graph]
    /\ UNCHANGED <<lib, records, notCluster>>

\* connected_components, "for node in graph": the dictionary yields its
\* keys in the order the edges came from the store
cc_next_node(node) ==
    /\ cc.pc = "outer"
    /\ node \in cc.iter
    /\ cc' = IF node \in cc.visited
             THEN [cc EXCEPT !.iter = @ \ {node}]
             ELSE [cc EXCEPT !.iter = @ \ {node},
                             !.stack = <<node>>,
                             !.component = {},
                             !.pc = "inner"]
    /\ UNCHANGED <<lib, records, notCluster>>

\* connected_components, one turn of "while stack"; the neighbours of a
\* node are pushed in the order its set yields them
cc_visit(order) ==
    /\ cc.pc = "inner"
    /\ LET cur == cc.stack[Len(cc.stack)]
           rest == SubSeq(cc.stack, 1, Len(cc.stack) - 1)
           seen == cur \in cc.visited
           stack == IF seen THEN rest ELSE rest \o order
           component == IF seen THEN cc.component
                        ELSE cc.component \cup {cur}
       IN  /\ order \in (IF seen THEN {<<>>} ELSE Orders(cc.graph[cur]))
           /\ cc' = [cc EXCEPT
                       !.visited = @ \cup {cur},
                       !.stack = stack,
                       !.component = component,
                       !.clusters = IF stack = <<>>
                                    THEN Append(@, component) ELSE @,
                       !.pc = IF stack = <<>> THEN "outer" ELSE "inner"]
    /\ UNCHANGED <<lib, records, notCluster>>

\* clusters_as_records, the loop over raw_clusters
clusters_as_records_finish(min_size, canonical) ==
    /\ cc.pc = "outer"
    /\ cc.iter = {}
    /\ canonical \in [DOMAIN cc.clusters -> LibIds]
    /\ \A k \in DOMAIN cc.clusters :
          canonical[k] \in canonical_candidates(lib, cc.clusters[k])
    /\ LET Record(k) ==
              [cluster_id |-> k,
               size       |-> Cardinality(cc.clusters[k]),
               confidence |->
                   compute_confidence(Cardinality(cc.clusters[k]),
                       aggregate_signals(lib, cc.clusters[k])),
               signals    |-> aggregate_signals(lib, cc.clusters[k]),
               canonical_candidate_id |-> canonical[k],
               files      |-> cc.clusters[k]]
           BigEnough(k) == Cardinality(cc.clusters[k]) >= min_size
           RECURSIVE Results(_)
           Results(k) == IF k > Len(cc.clusters) THEN <<>>
                         ELSE (IF BigEnough(k) THEN <<Record(k)>> ELSE <<>>)
                              \o Results(k + 1)
       IN  records' = Results(1)
    /\ cc' = [cc EXCEPT !.pc = "done"]
    /\ UNCHANGED <<lib, notCluster>>

\* a store holding any NumFiles tracks, the first of them in the source
\* root or a directory deeper and the others in the source root; no cluster
\* query made yet
InitCluster ==
    /\ lib \in [LibIds -> LibRows]
    /\ \A i \in LibIds \ {1} : lib[i].path_len = 7
    /\ cc = NoWalk
    /\ records = <<>>
    /\ applyIdle
    /\ ingestIdle
    /\ ufIdle
    /\ confIdle
    /\ lateIdle

NextCluster ==
    \/ clusters_as_records_start
    \/ \E node \in LibIds : cc_next_node(node)
    \/ \E order \in UNION {Orders(S) : S \in SUBSET LibIds} : cc_visit(order)
    \/ \E canonical \in UNION {[1..n -> LibIds] : n \in 0..NumFiles} :
          clusters_as_records_finish(DEFAULT_MIN_SIZE, canonical)

SpecCluster == InitCluster /\ [][NextCluster]_vars

\* ------------------------------------------------------------------------
\* Claims about ingestion
\* ------------------------------------------------------------------------
\* the step is a run of analyze_files
IsScan == ops' = ops + 1 /\ scan' # NoScan

MovesOf(l, p) == {i \in DOMAIN l : l[i].action = "move" /\ l[i].src_path = p}

\* C11: after any sequence of ingestion runs the ledger holds at most one
\* move action per original path, and a run over a tree whose files all
\* have their row already (as after a full scan of it) stages no action.
C11_OneMovePerPath ==
    [][IsScan =>
         /\ \A p \in Paths : Cardinality(MovesOf(ledger', p)) <= 1
         /\ (DOMAIN tree \subseteq DOMAIN tracks => ledger' = ledger)]_vars

\* a first full scan staged the move of one file, and the second full scan,
\* of the whole unchanged tree, staged the move of the other file only
C11_Witness ==
    /\ ops = 2
    /\ scan.db_mode = "full"
    /\ Len(ledger) = 2
    /\ ledger[1].created_at = 1
    /\ ledger[2].created_at = 2
    /\ ledger[1].src_path # ledger[2].src_path

\* the files a run walks: none in schema-only mode
Walked == IF scan'.db_mode = "schema-only" THEN {} ELSE audio_list(scan'.src)

\* the merge policy as documented: OVERWRITE takes every observed non-null
\* value, FILL_MISSING_ONLY takes it only where the stored value is null
ReferenceMerge(stored, observed, no_overwrite) ==
    IF observed # NULL /\ (~no_overwrite \/ stored = NULL) THEN observed
    ELSE stored

\* C12: for every policy-governed field of a track a run walks, the value
\* stored after the upsert is the reference merge of the stored and the
\* observed value under the mode of the run; so without no_overwrite an
\* observed non-null value replaces a different stored non-null value.
C12_UpsertIsReferenceMerge ==
    [][IsScan =>
         \A p \in Walked \cap DOMAIN tracks :
            tracks'[p].artist =
                ReferenceMerge(tracks[p].artist, extract_tags(tree[p]).artist,
                               scan'.no_overwrite)]_vars

\* C13 as stated: a run with no_overwrite set, in any db_mode, leaves every
\* content hash that is already set as it is.
C13_NoOverwriteKeepsHash ==
    [][IsScan /\ scan'.no_overwrite =>
         \A p \in DOMAIN tracks :
            tracks[p].sha256 # NULL
                => tracks'[p].sha256 = tracks[p].sha256]_vars

\* C13, amended: a run that does not recompute the hash (schema-only,
\* db-update-only) leaves every content hash that is already set as it is,
\* with or without no_overwrite and whatever the files hold now; a run that
\* recomputes it (the other modes) stores the hash of the current bytes of
\* every file it walks, with or without no_overwrite, and leaves the other
\* hashes alone.
C13_HashKeptUnlessRecomputed ==
    [][IsScan =>
         \A p \in DOMAIN tracks :
            IF p \in Walked
                 /\ scan'.db_mode \notin {"schema-only", "db-update-only"}
            THEN tracks'[p].sha256 = sha256_file(tree[p])
            ELSE tracks[p].sha256 # NULL
                   => tracks'[p].sha256 = tracks[p].sha256]_vars

\* a db-update-only run with no_overwrite has walked a file whose bytes
\* changed since its hash was stored, and the stored hash is still the old
\* one
C13_Witness ==
    /\ scan.db_mode = "db-update-only"
    /\ scan.no_overwrite
    /\ \E p \in audio_list(scan.src) \cap DOMAIN tracks :
          /\ tracks[p].sha256 # NULL
          /\ tracks[p].sha256 # sha256_file(tree[p])

\* C14: in every reachable state of the store, after any ingestion runs and
\* metadata edits, the normalized fields of every track are normalize_text
\* of its current raw fields.
C14_NormalizedFollowsRaw ==
    \A p \in DOMAIN tracks :
        tracks[p].artist_norm = normalize_text(tracks[p].artist)

\* C15: a normalize-only run changes nothing of a track but its normalized
\* fields (raw metadata, content hash and size keep their values), creates
\* no track record and stages no action.
C15_NormalizeOnlyFrame ==
    [][IsScan /\ scan'.db_mode = "normalize-only" =>
         /\ DOMAIN tracks' = DOMAIN tracks
         /\ \A p \in DOMAIN tracks :
               /\ tracks'[p].artist = tracks[p].artist
               /\ tracks'[p].sha256 = tracks[p].sha256
               /\ tracks'[p].size_bytes = tracks[p].size_bytes
         /\ ledger' = ledger]_vars

\* ------------------------------------------------------------------------
\* Claims about alias clusters
\* ------------------------------------------------------------------------
\* the cluster query has returned
Reported == cc.pc = "done"

SameHash(l, a, b) == l[a].sha256 # NULL /\ l[a].sha256 = l[b].sha256

\* C16: all tracks A, B with equal non-null content hash are in one and
\* the same reported cluster, whatever their metadata.
C16_EqualHashSameCluster ==
    Reported =>
        \A pr \in LibPairs :
            SameHash(lib, pr[1], pr[2])
                => \E k \in DOMAIN records :
                      {pr[1], pr[2]} \subseteq records[k].files

\* C17: for a store holding exactly two tracks, ingested from byte-identical
\* files (equal hash, fingerprint and tags) at different paths, the cluster
\* query with min_size 2 returns exactly one cluster, of size 2 and
\* confidence 0.50.
C17_TwoIdenticalFiles ==
    /\ Reported
    /\ DOMAIN lib = {1, 2}
    /\ SameHash(lib, 1, 2)
    /\ [lib[1] EXCEPT !.path_len = 0] = [lib[2] EXCEPT !.path_len = 0]
    => /\ Len(records) = 1
       /\ records[1].size = 2
       /\ records[1].confidence = 500

\* the tracks that strong edges join to the tracks of S, S included
RECURSIVE Closure(_, _)
Closure(E, S) ==
    LET T == S \cup {b \in LibIds :
                        \E a \in S : <<a, b>> \in E \/ <<b, a>> \in E}
    IN  IF T = S THEN S ELSE Closure(E, T)

\* the member of C with most of artist, album and title present, then the
\* shortest path, then the lowest id
LexFirst(l, C) ==
    LET Present(v) == IF v # NULL /\ v # <<>> THEN 1 ELSE 0
        Meta(i) == Present(l[i].artist) + Present(l[i].album)
                   + Present(l[i].title)
        Before(i, j) ==
            \/ Meta(i) > Meta(j)
            \/ Meta(i) = Meta(j) /\ l[i].path_len < l[j].path_len
            \/ Meta(i) = Meta(j) /\ l[i].path_len = l[j].path_len /\ i < j
    IN  CHOOSE i \in C : \A j \in C \ {i} : Before(i, j)

UfNodes == 1..NumNodes

notUf == <<applyVars, ingestVars, clusterVars, conf, lateVars>>

RECURSIVE FindRoot(_, _)
FindRoot(par, x) == IF par[x] = x THEN x ELSE FindRoot(par, par[x])

\* the nodes find re-parents: those on the way from x to its root
RECURSIVE PathOf(_, _)
PathOf(par, x) == IF par[x] = x THEN {} ELSE {x} \cup PathOf(par, par[x])

\* UnionFind.find: the root it returns and the parent map it leaves
find(par, x) ==
    IF x \notin DOMAIN par
    THEN [root   |-> x,
          parent |-> [y \in DOMAIN par \cup {x} |->
                         IF y = x THEN x ELSE par[y]]]
    ELSE LET root == FindRoot(par, x)
         IN  [root   |-> root,
              parent |-> [y \in DOMAIN par |->
                             IF y \in PathOf(par, x) THEN root ELSE par[y]]]

union_first_wins(par, a, b) ==
    LET fa == find(par, a)
        fb == find(fa.parent, b)
    IN  IF fa.root = fb.root THEN fb.parent
        ELSE [fb.parent EXCEPT ![fb.root] = fa.root]

\* UnionFind.union: the parent map it leaves
union(par, a, b) ==
    LET fa == find(par, a)
        fb == find(fa.parent, b)
    IN  IF fa.root = fb.root THEN fb.parent
        ELSE IF fa.root < fb.root
             THEN [fb.parent EXCEPT ![fb.root] = fa.root]
             ELSE [fb.parent EXCEPT ![fa.root] = fb.root]

\* uf.union(int(a), int(b)) for one more row of the cursor
uf_union(a, b) ==
    /\ uf_pc = "feeding"
    /\ uf_calls < MaxUfCalls
    /\ uf_calls' = uf_calls + 1
    /\ parent' = union(parent, a, b)
    /\ fed' = fed \cup {<<a, b>>}
    /\ UNCHANGED <<dup_clusters, uf_pc, notUf>>

\* uf.find(x)
uf_find(x) ==
    /\ uf_pc = "feeding"
    /\ uf_calls < MaxUfCalls
    /\ uf_calls' = uf_calls + 1
    /\ parent' = find(parent, x).parent
    /\ UNCHANGED <<fed, dup_clusters, uf_pc, notUf>>

\* build_duplicate_clusters after the cursor is exhausted: group the nodes
\* by root, sort the members, sort the keys
build_duplicate_clusters_group ==
    /\ uf_pc = "feeding"
    /\ uf_pc' = "done"
    /\ parent' = [x \in DOMAIN parent |-> FindRoot(parent, x)]
    /\ dup_clusters' =
          [r \in {find(parent, x).root : x \in DOMAIN parent} |->
              OrderById({x \in DOMAIN parent : find(parent, x).root = r})]
    /\ UNCHANGED <<fed, uf_calls, notUf>>

\* uf = UnionFind()
InitUf ==
    /\ ufIdle
    /\ applyIdle
    /\ ingestIdle
    /\ clusterIdle
    /\ confIdle
    /\ lateIdle

NextUf ==
    \/ \E a \in UfNodes, b \in UfNodes : uf_union(a, b)
    \/ \E x \in UfNodes : uf_find(x)
    \/ build_duplicate_clusters_group

SpecUf == InitUf /\ [][NextUf]_vars

\* ------------------------------------------------------------------------
\* Claims about union-find clusters
\* ------------------------------------------------------------------------
\* the nodes that the union calls made so far join to the nodes of S
RECURSIVE Joined(_)
Joined(S) ==
    LET T == S \cup {b \in UfNodes :
                        \E a \in S : <<a, b>> \in fed \/ <<b, a>> \in fed}
    IN  IF T = S THEN S ELSE Joined(T)

\* C19: after any sequence of union and find calls the root find returns
\* for a node is the smallest id of the node's component, and
\* build_duplicate_clusters keys every cluster by its smallest member, in
\* whatever order the edges were fed.
C19_RootIsSmallest ==
    /\ \A x \in UfNodes : find(parent, x).root = Min(Joined({x}))
    /\ uf_pc = "done" =>
          /\ DOMAIN dup_clusters = {Min(Joined({x})) : x \in DOMAIN parent}
          /\ \A r \in DOMAIN dup_clusters :
                dup_clusters[r] = OrderById(Joined({r}))

\* three nodes were joined by edges fed largest id first, and grouped
C19_Witness ==
    /\ uf_pc = "done"
    /\ <<3, 2>> \in fed
    /\ <<1, 2>> \notin fed
    /\ <<2, 1>> \notin fed
    /\ 1 \in DOMAIN dup_clusters
    /\ dup_clusters[1] = <<1, 2, 3>>

\* ========================================================================
\* Confidence of a cluster (src/backend/alias_engine.py compute_confidence)
\* as a function of its inputs
\* ========================================================================
notConf == <<applyVars, ingestVars, clusterVars, ufVars, lateVars>>

ConfInputs == [size : 0..MaxSize, signals : [SIGNAL_TYPES -> 0..MaxCount]]

Scored(in, raised) ==
    [size    |-> in.size,
     signals |-> in.signals,
     raised  |-> raised,
     value   |-> compute_confidence(in.size, in.signals)]

\* compute_confidence for a cluster with one more signal of type t
raise_signal(t) ==
    /\ conf.signals[t] < MaxCount
    /\ conf' = Scored([size    |-> conf.size,
                       signals |-> [conf.signals EXCEPT ![t] = @ + 1]], t)
    /\ UNCHANGED notConf

\* compute_confidence for a cluster with one more member
raise_size ==
    /\ conf.size < MaxSize
    /\ conf' = Scored([size |-> conf.size + 1, signals |-> conf.signals],
                      "size")
    /\ UNCHANGED notConf

InitConf ==
    /\ \E in \in ConfInputs : conf = Scored(in, "none")
    /\ applyIdle
    /\ ingestIdle
    /\ clusterIdle
    /\ ufIdle
    /\ lateIdle

NextConf ==
    \/ \E t \in SIGNAL_TYPES : raise_signal(t)
    \/ raise_size

SpecConf == InitConf /\ [][NextConf]_vars

\* ------------------------------------------------------------------------
\* Claims about the confidence
\* ------------------------------------------------------------------------
\* every input of d is at least the input of c, and one is larger
Raised(c, d) ==
    /\ c.size <= d.size
    /\ \A t \in SIGNAL_TYPES : c.signals[t] <= d.signals[t]
    /\ <<c.size, c.signals>> # <<d.size, d.signals>>

\* C20: compute_confidence is monotone: raising the count of any signal
\* type (from zero to positive included) or the cluster size never lowers
\* the value it returns.
C20_ConfidenceMonotone ==
    [][Raised(conf, conf') => conf'.value >= conf.value]_vars

\* a fifth metadata hit arrived for a cluster below the clamp: the value
\* stays at its cap for metadata
C20_Witness ==
    /\ conf.raised = "album_title"
    /\ conf.signals["artist_title"] + conf.signals["album_title"] = 5
    /\ conf.signals["sha256"] = 0
    /\ conf.value = 200

\* C21: for every cluster size and every map of non-negative signal
\* counts the confidence compute_confidence returns lies between 0 and 1
\* (0 and 1000 thousandths), also when every bonus applies at once.
C21_ConfidenceInUnitRange ==
    /\ conf.value >= 0
    /\ conf.value <= 1000

\* both strong signals, the capped metadata bonus and both size bonuses
\* apply together (raw sum 1.1) and the value returned is 1
C21_Witness ==
    /\ conf.raised # "none"
    /\ conf.signals["sha256"] > 0
    /\ conf.signals["fingerprint"] > 0
    /\ conf.signals["artist_title"] + conf.signals["album_title"] >= 4
    /\ conf.size >= 5
    /\ conf.value = 1000

\* ------------------------------------------------------------------------
\* Claims about the canonical candidate
\* ------------------------------------------------------------------------
\* how many of artist, album, title the row of track i has
FieldsPresent(i) ==
    Cardinality({k \in {"artist", "album", "title"} :
                    lib[i][k] # NULL /\ lib[i][k] # <<>>})

\* member j ranks strictly before member i
RanksBefore(j, i) ==
    \/ FieldsPresent(j) > FieldsPresent(i)
    \/ /\ FieldsPresent(j) = FieldsPresent(i)
       /\ lib[j].path_len < lib[i].path_len
    \/ /\ FieldsPresent(j) = FieldsPresent(i)
       /\ lib[j].path_len = lib[i].path_len
       /\ j < i

\* C22: the canonical candidate of every reported cluster is a member of
\* it, and no other member has more of artist/album/title present, or as
\* many and a shorter original path, or as many, the same path length and
\* a lower id.
C22_CanonicalIsLexLeast ==
    Reported =>
        \A k \in DOMAIN records :
            /\ records[k].canonical_candidate_id \in records[k].files
            /\ \A j \in records[k].files :
                  ~RanksBefore(j, records[k].canonical_candidate_id)

\* a reported cluster whose members have the same number of fields, where
\* the member with the higher id has the shorter path and is the candidate
C22_Witness ==
    /\ Reported
    /\ \E k \in DOMAIN records :
          /\ records[k].files = {1, 2}
          /\ FieldsPresent(1) = FieldsPresent(2)
          /\ lib[1].path_len > lib[2].path_len
          /\ records[k].canonical_candidate_id = 2

\* ========================================================================
\* normalize_text (src/backend/normalization.py) as a function of its input
\* ========================================================================
notNorm == <<applyVars, ingestVars, clusterVars, ufVars, conf, san, fpscan, runscan, part>>

\* what the input texts are made of: a lower-case and an upper-case letter,
\* a digit, a noise word, a blank, a separator, a punctuation mark, a
\* letter with a diacritic, the letter eth, and the two characters the
\* first key of TRANSLITERATION_MAP is spelled with
Pieces == {<<"a">>, <<"B">>, <<"1">>, <<"m", "i", "x">>, <<" ">>, <<"-">>,
           <<"(">>, <<"U+00E9">>, <<"U+00F0">>, <<"U+0E23", "U+0E10">>}

RECURSIVE Concat(_)
Concat(ps) == IF ps = <<>> THEN <<>> ELSE Head(ps) \o Concat(Tail(ps))

Texts == {Concat(ps) : ps \in UNION {[1..n -> Pieces] : n \in 0..MaxPieces}}

\* normalize_text(value) for a value from a tag or a request
normalize ==
    /\ norm.pc = "input"
    /\ norm' = [norm EXCEPT !.pc = "once",
                            !.once = normalize_text(norm.text)]
    /\ UNCHANGED notNorm

\* normalize_text of a value that is a result of normalize_text
\* (src/tests/normalization/test_stability.py test_idempotence)
normalize_again ==
    /\ norm.pc = "once"
    /\ norm' = [norm EXCEPT !.pc = "twice",
                            !.twice = normalize_text(norm.once)]
    /\ UNCHANGED notNorm

InitNorm ==
    /\ \E t \in Texts :
          norm = [pc |-> "input", text |-> t, once |-> NULL, twice |-> NULL]
    /\ applyIdle
    /\ ingestIdle
    /\ clusterIdle
    /\ ufIdle
    /\ confIdle
    /\ sanIdle
    /\ fpscanIdle
    /\ runscanIdle
    /\ partIdle

NextNorm ==
    \/ normalize
    \/ normalize_again

SpecNorm == InitNorm /\ [][NextNorm]_vars

\* ------------------------------------------------------------------------
\* Claims about normalize_text
\* ------------------------------------------------------------------------
\* C23: normalize_text is idempotent: for every input text made of
\* letters, digits, punctuation, separators, blanks and noise words,
\* normalizing the normalized text gives the normalized text again.
C23_NormalizeIdempotent ==
    norm.pc = "twice" => norm.twice = norm.once

\* a text with a number next to punctuation was normalized twice: the
\* first pass changed it, the second did not
C23_Witness ==
    /\ norm.pc = "twice"
    /\ norm.text = <<"B", "(", "1", "-">>
    /\ norm.once = <<"b">>
    /\ norm.twice = <<"b">>

\* a text that is a sequence of tokens already: lower-case letters and
\* digits, separated by blanks
IsTokenText(t) ==
    \A i \in 1..Len(t) :
        \/ t[i] = " "
        \/ t[i] \in DIGITS
        \/ \E k \in 1..Len(LOWER) : LOWER[k] = t[i]

\* its tokens, in order
TokensOf(t) ==
    LET NonEmpty(w) == w # <<>>
    IN  SelectSeq(Split(t, <<>>), NonEmpty)

IsNumber(w) == \A i \in 1..Len(w) : w[i] \in DIGITS

\* the tokens the claim keeps: no purely numeric token, and no noise word
\* when some token is purely numeric
KeptTokens(ws) ==
    LET numeric == \E i \in 1..Len(ws) : IsNumber(ws[i])
        Keep(w) == ~IsNumber(w) /\ ~(numeric /\ w \in NOISE_TOKENS)
    IN  SelectSeq(ws, Keep)

\* C24: for every sequence of tokens normalize_text drops every purely
\* numeric token, drops a noise word if and only if some token of the
\* input is purely numeric, and keeps every other token, a token that
\* only contains a noise word included, in the original order.
C24_TokenFilter ==
    norm.pc # "input" /\ IsTokenText(norm.text)
        => norm.once = Join(KeptTokens(TokensOf(norm.text)))

\* a number and a token that contains the noise word mix: the number is
\* dropped, the token is kept
C24_Witness ==
    /\ norm.pc = "once"
    /\ norm.text = <<"1", " ", "a", "m", "i", "x">>
    /\ norm.once = <<"a", "m", "i", "x">>

\* the text with every eth (U+00F0, U+00D0) written as the letter d
EthAsD(t) ==
    [i \in 1..Len(t) |-> IF t[i] \in {"U+00F0", "U+00D0"} THEN "d" ELSE t[i]]

\* C25: normalize_text replaces a character that has an entry in the
\* transliteration table by its ASCII replacement before the non-ASCII
\* remainder is dropped, so the character is never lost: the letter eth is
\* rendered as d, and the result for a text is the result for the same
\* text with d written for eth.
C25_EthRenderedAsD ==
    norm.pc # "input" => norm.once = normalize_text(EthAsD(norm.text))

\* ========================================================================
\* sanitize_for_fs (src/backend/consolidate_music.py) as a function of its
\* input
\* ========================================================================
notSan == <<applyVars, ingestVars, clusterVars, ufVars, conf, norm, fpscan, runscan, part>>

\* the length sanitize_for_fs truncates a path component to
COMPONENT_MAX_LEN == 120

\* the character class [<>:"/\\|?*\x00-\x1f]; tab and newline stand for the
\* control characters
ILLEGAL_CHARS == {"<", ">", ":", "\"", "/", "\\", "|", "?", "*", "\t", "\n"}

UNKNOWN == <<"U", "n", "k", "n", "o", "w", "n">>

\* how many characters at the start of s, and at its end, are in chars
RECURSIVE Leading(_, _)
Leading(s, chars) ==
    IF s = <<>> THEN 0
    ELSE IF Len(s) = 1 THEN (IF s[1] \in chars THEN 1 ELSE 0)
    ELSE LET h == Len(s) \div 2
             l == Leading(SubSeq(s, 1, h), chars)
         IN  IF l = h THEN h + Leading(SubSeq(s, h + 1, Len(s)), chars)
             ELSE l

RECURSIVE Trailing(_, _)
Trailing(s, chars) ==
    IF s = <<>> THEN 0
    ELSE IF Len(s) = 1 THEN (IF s[1] \in chars THEN 1 ELSE 0)
    ELSE LET h == Len(s) \div 2
             t == Trailing(SubSeq(s, h + 1, Len(s)), chars)
         IN  IF t = Len(s) - h THEN t + Trailing(SubSeq(s, 1, h), chars)
             ELSE t

\* str.strip(chars), one end at a time
LStrip(s, chars) == SubSeq(s, Leading(s, chars) + 1, Len(s))
RStrip(s, chars) == SubSeq(s, 1, Len(s) - Trailing(s, chars))

\* NFKD, combining marks removed, white space stripped at both ends
normalize_str(s) ==
    IF s = NULL \/ s = <<>> THEN <<>>
    ELSE LET IsBase(c) == c \notin Combining
         IN  RStrip(LStrip(SelectSeq(Decompose(s), IsBase), RE_WHITESPACE),
                    RE_WHITESPACE)

sanitize_for_fs(s) ==
    IF s = NULL \/ s = <<>> THEN UNKNOWN
    ELSE LET n == normalize_str(s)
             replaced == [i \in 1..Len(n) |->
                            IF n[i] \in ILLEGAL_CHARS THEN "_" ELSE n[i]]
             stripped == RStrip(LStrip(replaced, {" ", "."}), {" ", "."})
         IN  SubSeq(stripped, 1, MinOf(Len(stripped), COMPONENT_MAX_LEN))

\* metadata strings are written as runs of one character: a letter, a
\* dot, a blank, a character illegal in file names, a letter with a
\* diacritic; a run is one character long or one short of the cap
RunChars == {"a", ".", " ", "/", "U+00E9"}
RunLengths == {1, COMPONENT_MAX_LEN - 1}
Runs == [ch : RunChars, n : RunLengths]

RECURSIVE Expand(_)
Expand(rs) ==
    IF rs = <<>> THEN <<>>
    ELSE [i \in 1..Head(rs).n |-> Head(rs).ch] \o Expand(Tail(rs))

MetaStrings ==
    {NULL} \cup {Expand(rs) : rs \in UNION {[1..k -> Runs] : k \in 0..MaxRuns}}

\* sanitize_for_fs(s) for a tag value s, as recommended_path_for calls it
sanitize ==
    /\ san.pc = "input"
    /\ san' = [san EXCEPT !.pc = "done", !.out = sanitize_for_fs(san.s)]
    /\ UNCHANGED notSan

InitSan ==
    /\ \E s \in MetaStrings : san = [pc |-> "input", s |-> s, out |-> NULL]
    /\ applyIdle
    /\ ingestIdle
    /\ clusterIdle
    /\ ufIdle
    /\ confIdle
    /\ normIdle
    /\ fpscanIdle
    /\ runscanIdle
    /\ partIdle

NextSan == sanitize

SpecSan == InitSan /\ [][NextSan]_vars

\* ------------------------------------------------------------------------
\* Claims about sanitize_for_fs
\* ------------------------------------------------------------------------
\* C27: for every metadata string of every length the path component
\* sanitize_for_fs returns holds no character illegal in file names, is at
\* most 120 characters long, and does not end with a dot or a blank.
C27_ComponentIsSafe ==
    san.pc = "done" =>
        /\ \A i \in 1..Len(san.out) : san.out[i] \notin ILLEGAL_CHARS
        /\ Len(san.out) <= COMPONENT_MAX_LEN
        /\ san.out # <<>> => san.out[Len(san.out)] \notin {".", " "}

\* ========================================================================
\* Fingerprinting in a full scan (src/backend/consolidate_music.py
\* compute_fingerprint, analyze_files with with_fingerprint)
\*
\* A row of table files carries the column fingerprint only; the other
\* columns are those of the ingestion model above.
\* ========================================================================
notFpscan == <<applyVars, ingestVars, clusterVars, ufVars, conf, norm, san, runscan, part>>

\* the audio files of the source root, by number
ScannedFiles == 1..NumScanned

\* what running ffmpeg on a file does: it writes PCM data, it is not
\* installed (subprocess.run raises FileNotFoundError), it ends with a
\* non-zero status (check=True raises CalledProcessError), it writes
\* nothing
DecoderOutcomes == {"pcm", "tool_missing", "decoder_error", "empty_output"}

\* hashlib.sha1(fingerprint.encode()).hexdigest() of file p
sha1_fingerprint(p) == <<"sha1", "pcm", p>>

\* a fingerprint stored by an earlier run
OldFingerprint == <<"sha1", "old", 0>>

compute_fingerprint_unguarded(chromaprint_loaded, decoder) ==
    IF ~chromaprint_loaded THEN [raised |-> FALSE, ok |-> FALSE]
    ELSE IF decoder \in {"tool_missing", "decoder_error"}
         THEN [raised |-> TRUE, ok |-> FALSE]
    ELSE IF decoder = "empty_output" THEN [raised |-> FALSE, ok |-> FALSE]
    ELSE [raised |-> FALSE, ok |-> TRUE]

\* compute_fingerprint: whether an exception leaves the function, and
\* whether it returns a fingerprint rather than None
compute_fingerprint(chromaprint_loaded, decoder) ==
    IF ~chromaprint_loaded THEN [raised |-> FALSE, ok |-> FALSE]
    ELSE LET try == IF decoder \in {"tool_missing", "decoder_error"}
                    THEN [raised |-> TRUE, ok |-> FALSE]
                    ELSE IF decoder = "empty_output"
                         THEN [raised |-> FALSE, ok |-> FALSE]
                         ELSE [raised |-> FALSE, ok |-> TRUE]
         IN  IF try.raised THEN [raised |-> FALSE, ok |-> FALSE] ELSE try

\* the loop of analyze_files over the files of order, from position i, on
\* the rows of the open transaction: the rows at the end of the loop, or
\* the exception that left it
RECURSIVE fingerprint_all(_, _, _, _, _)
fingerprint_all(rows, order, i, env, no_overwrite) ==
    IF i > Len(order) THEN [raised |-> FALSE, rows |-> rows]
    ELSE LET p == order[i]
             r == compute_fingerprint(env.chromaprint_loaded, env.decoder[p])
             fp == IF r.ok THEN sha1_fingerprint(p) ELSE NULL
             flag == SqlText(overwrite_mode(no_overwrite))
             row == IF p \in DOMAIN rows
                    THEN [fingerprint |->
                             merge_field(rows[p].fingerprint, fp, flag)]
                    ELSE [fingerprint |-> fp]
         IN  IF r.raised THEN [raised |-> TRUE, rows |-> rows]
             ELSE fingerprint_all(
                      [q \in DOMAIN rows \cup {p} |->
                          IF q = p THEN row ELSE rows[q]],
                      order, i + 1, env, no_overwrite)

\* analyze_files(src, lib, db_path, with_fingerprint=True, db_mode="full"):
\* the rows are committed after the last file; an exception that leaves the
\* loop leaves the transaction uncommitted
analyze_files_with_fingerprint(no_overwrite) ==
    /\ fpscan.pc = "ready"
    /\ \E order \in Orders(ScannedFiles) :
          LET run == fingerprint_all(fpscan.before, order, 1, fpscan.env,
                                     no_overwrite)
          IN  fpscan' = [fpscan EXCEPT
                            !.pc = IF run.raised THEN "aborted" ELSE "done",
                            !.rows = IF run.raised THEN fpscan.before
                                     ELSE run.rows]
    /\ UNCHANGED notFpscan

\* the store holds rows of earlier runs for some of the files, with or
\* without a fingerprint
InitFpscan ==
    /\ \E loaded \in BOOLEAN, decoder \in [ScannedFiles -> DecoderOutcomes],
          known \in SUBSET ScannedFiles :
          \E before \in [known -> [fingerprint : {NULL, OldFingerprint}]] :
             fpscan = [pc     |-> "ready",
                       env    |-> [chromaprint_loaded |-> loaded,
                                   decoder |-> decoder],
                       before |-> before,
                       rows   |-> before]
    /\ applyIdle
    /\ ingestIdle
    /\ clusterIdle
    /\ ufIdle
    /\ confIdle
    /\ normIdle
    /\ sanIdle
    /\ runscanIdle
    /\ partIdle

NextFpscan == \E no_overwrite \in BOOLEAN :
                 analyze_files_with_fingerprint(no_overwrite)

SpecFpscan == InitFpscan /\ [][NextFpscan]_vars

\* ------------------------------------------------------------------------
\* Claims about fingerprinting
\* ------------------------------------------------------------------------
\* the fingerprinting capability fails on file p
FingerprintFails(p) ==
    \/ ~fpscan.env.chromaprint_loaded
    \/ fpscan.env.decoder[p] # "pcm"

\* C26: in a full scan with fingerprinting, a failure of the fingerprinting
\* capability on a file (tool missing, decoder error, empty output) stores
\* no fingerprint value for that file, and every file of the scan is still
\* processed and its record committed: the failure never aborts the scan.
C26_FingerprintFailureIsLocal ==
    fpscan.pc \notin {"idle", "ready"} =>
        /\ fpscan.pc = "done"
        /\ DOMAIN fpscan.rows = ScannedFiles
        /\ \A p \in ScannedFiles :
              FingerprintFails(p) =>
                 fpscan.rows[p].fingerprint =
                    IF p \in DOMAIN fpscan.before
                    THEN fpscan.before[p].fingerprint
                    ELSE NULL

\* the decoder failed on the first file, which was new, and worked on the
\* second: the first has a row without a fingerprint, the second has its
\* fingerprint
C26_Witness ==
    /\ fpscan.pc = "done"
    /\ fpscan.env.chromaprint_loaded
    /\ fpscan.env.decoder[1] = "decoder_error"
    /\ fpscan.env.decoder[2] = "pcm"
    /\ 1 \notin DOMAIN fpscan.before
    /\ fpscan.rows[1].fingerprint = NULL
    /\ fpscan.rows[2].fingerprint = sha1_fingerprint(2)

\* ========================================================================
\* The run-scan endpoint (src/api.py startup_run_scan) and its lock marker
\* locks/scan.lock.  Requests are served one after the other: no scan is
\* running when a request arrives.
\* ========================================================================
notRunscan == <<applyVars, ingestVars, clusterVars, ufVars, conf, norm, san,
                fpscan, part>>

\* the checks that end a request before the lock marker is looked at
EarlyErrors == {"INVALID_PLAN", "NO_DB_PATH_IN_PLAN", "ACTIVE_DB_MISSING",
                "SRC_NOT_FOUND", "LIB_NOT_FOUND", "INVALID_DB_MODE"}

\* a request: the early check it fails if any, options.dry_run, whether
\* analyze_files raises, whether saving the plan raises
RunScanRequests ==
    [early          : EarlyErrors \cup {NoError},
     dry_run        : BOOLEAN,
     analyze_raises : BOOLEAN,
     save_raises    : BOOLEAN]

ScanReturn(status, error, mode) ==
    [status |-> status, error |-> error, mode |-> mode]

\* the body of startup_run_scan from the first look at the marker on:
\* whether the marker exists when the request returns, whether the request
\* created it, and what the request returns
run_scan_body(lock, r) ==
    IF lock
    THEN [lock |-> lock, created |-> FALSE,
          ret |-> ScanReturn("error", "SCAN_ALREADY_RUNNING", "none")]
    ELSE \* open(SCAN_LOCK_PATH, "w").close()
         LET lock1 == TRUE
         IN  IF r.dry_run
             THEN IF r.analyze_raises
                  THEN [lock |-> FALSE, created |-> TRUE,
                        ret |-> ScanReturn("error", "DRY_RUN_FAILED", "none")]
                  ELSE [lock |-> FALSE, created |-> TRUE,
                        ret |-> ScanReturn("ok", NoError, "dry-run")]
             ELSE IF lock1
                  THEN [lock |-> lock1, created |-> TRUE,
                        ret |-> ScanReturn("error", "SCAN_ALREADY_RUNNING",
                                           "none")]
                  ELSE IF r.analyze_raises
                       THEN [lock |-> FALSE, created |-> TRUE,
                             ret |-> ScanReturn("error", "SCAN_FAILED",
                                                "none")]
                       ELSE IF r.save_raises
                            THEN [lock |-> FALSE, created |-> TRUE,
                                  ret |-> ScanReturn(
                                             "error",
                                             "CANNOT_SAVE_LAST_RUN_PLAN",
                                             "none")]
                            ELSE [lock |-> FALSE, created |-> TRUE,
                                  ret |-> ScanReturn("ok", NoError, "real")]

\* POST /startup/run-scan
startup_run_scan(r) ==
    /\ runscan.calls < MaxScanCalls
    /\ LET out == IF r.early # NoError
                  THEN [lock |-> runscan.lock, created |-> FALSE,
                        ret |-> ScanReturn("error", r.early, "none")]
                  ELSE run_scan_body(runscan.lock, r)
       IN  runscan' = [pc      |-> "returned",
                       lock    |-> out.lock,
                       created |-> out.created,
                       req     |-> r,
                       ret     |-> out.ret,
                       calls   |-> runscan.calls + 1]
    /\ UNCHANGED notRunscan

\* the server has started; no marker is left of an earlier process
InitRunscan ==
    /\ runscan = [pc      |-> "started",
                  lock    |-> FALSE,
                  created |-> FALSE,
                  req     |-> [early |-> NoError, dry_run |-> TRUE,
                               analyze_raises |-> FALSE,
                               save_raises |-> FALSE],
                  ret     |-> ScanReturn("none", NoError, "none"),
                  calls   |-> 0]
    /\ applyIdle
    /\ ingestIdle
    /\ clusterIdle
    /\ ufIdle
    /\ confIdle
    /\ normIdle
    /\ sanIdle
    /\ fpscanIdle
    /\ partIdle

NextRunscan == \E r \in RunScanRequests : startup_run_scan(r)

SpecRunscan == InitRunscan /\ [][NextRunscan]_vars

\* ------------------------------------------------------------------------
\* Claims about the scan lock
\* ------------------------------------------------------------------------
\* C28: on every exit path of startup_run_scan taken after it created the
\* scan lock marker (dry run or real scan, success or failure, failure to
\* save the plan) the marker is gone when the operation returns, so that a
\* following request, made while no scan is running, is not rejected with
\* SCAN_ALREADY_RUNNING.
C28_ScanLockReleased ==
    runscan.pc = "returned" =>
        /\ runscan.created => ~runscan.lock
        /\ runscan.ret.error # "SCAN_ALREADY_RUNNING"

\* ========================================================================
\* The two cluster builders on one set of strong edges:
\* clusters_as_records (src/backend/alias_engine.py) and
\* build_duplicate_clusters (src/backend/cluster_service.py).  Both read
\* the rows of the view alias_strong_edges, in the order the store yields
\* them.
\* ========================================================================
notPart == <<applyVars, ingestVars, clusterVars, ufVars, conf, norm, san,
             fpscan, runscan>>

PartNodes == 1..NumPartNodes

\* the rows the view can hold: file_id < other_file_id
EdgeSets == {E \in SUBSET {e \in PartNodes \X PartNodes : e[1] < e[2]} :
                Cardinality(E) <= MaxEdges}

MinSizes == 1..3

\* the keys of the dictionary build_alias_graph fills from the rows of
\* order, in insertion order: graph[a] is touched before graph[b]
RECURSIVE graph_keys(_, _, _)
graph_keys(order, i, keys) ==
    IF i > Len(order) THEN keys
    ELSE LET a == order[i][1]
             b == order[i][2]
             InKeys(x, ks) == \E k \in 1..Len(ks) : ks[k] = x
             ka == IF InKeys(a, keys) THEN keys ELSE Append(keys, a)
             kb == IF InKeys(b, ka) THEN ka ELSE Append(ka, b)
         IN  graph_keys(order, i + 1, kb)

dfs_direct_neighbours(graph, stack, visited, component) ==
    [visited   |-> visited \cup {stack[1]} \cup graph[stack[1]],
     component |-> {stack[1]} \cup graph[stack[1]]]

\* connected_components, "while stack": the visited set and the component
\* when the stack is empty; a set of small integers yields its members in
\* ascending order
RECURSIVE dfs(_, _, _, _)
dfs(graph, stack, visited, component) ==
    IF stack = <<>> THEN [visited |-> visited, component |-> component]
    ELSE LET cur == stack[Len(stack)]
             rest == SubSeq(stack, 1, Len(stack) - 1)
         IN  IF cur \in visited THEN dfs(graph, rest, visited, component)
             ELSE dfs(graph, rest \o OrderById(graph[cur]),
                      visited \cup {cur}, component \cup {cur})

\* connected_components, "for node in graph"
RECURSIVE components_from(_, _, _, _, _)
components_from(graph, keys, i, visited, clusters) ==
    IF i > Len(keys) THEN clusters
    ELSE IF keys[i] \in visited
         THEN components_from(graph, keys, i + 1, visited, clusters)
         ELSE LET walk == dfs(graph, <<keys[i]>>, visited, {})
              IN  components_from(graph, keys, i + 1, walk.visited,
                                  Append(clusters, walk.component))

\* the raw clusters of alias_engine for the rows read in order
raw_clusters(order) ==
    LET graph == build_alias_graph({order[i] : i \in 1..Len(order)})
    IN  components_from(graph, graph_keys(order, 1, <<>>), 1, {}, <<>>)

\* clusters_as_records, the loop over enumerate(raw_clusters, start=1):
\* cluster_id and member ids of the records
RECURSIVE cluster_records(_, _, _)
cluster_records(raw, k, min_size) ==
    IF k > Len(raw) THEN <<>>
    ELSE (IF Cardinality(raw[k]) < min_size THEN <<>>
          ELSE << [cluster_id |-> k, files |-> raw[k]] >>)
         \o cluster_records(raw, k + 1, min_size)

\* clusters_as_records(conn, min_size) when the view yields its rows in
\* order
clusters_as_records(order, min_size) ==
    /\ part.pc = "ready"
    /\ LET raw == raw_clusters(order)
           recs == cluster_records(raw, 1, min_size)
       IN  part' = [part EXCEPT
                       !.queries = IF @ < 2 THEN @ + 1 ELSE @,
                       !.raw = {raw[k] : k \in 1..Len(raw)},
                       !.first = IF part.queries = 0 THEN recs ELSE @,
                       !.last = recs]
    /\ UNCHANGED notPart

\* the loop "for a, b in cur: uf.union(int(a), int(b))"
RECURSIVE union_all(_, _, _)
union_all(par, order, i) ==
    IF i > Len(order) THEN par
    ELSE union_all(union(par, order[i][1], order[i][2]), order, i + 1)

\* build_duplicate_clusters(conn) when the view yields its rows in order
build_duplicate_clusters(order) ==
    /\ part.pc = "ready"
    /\ LET par == union_all(<<>>, order, 1)
       IN  part' = [part EXCEPT
                       !.built = TRUE,
                       !.dup = [r \in {find(par, x).root : x \in DOMAIN par}
                                 |-> OrderById({x \in DOMAIN par :
                                                  find(par, x).root = r})]]
    /\ UNCHANGED notPart

\* a store whose view alias_strong_edges holds the rows of edges
InitPart ==
    /\ \E E \in EdgeSets :
          part = [pc |-> "ready", edges |-> E, queries |-> 0, raw |-> {},
                  first |-> <<>>, last |-> <<>>, built |-> FALSE,
                  dup |-> <<>>]
    /\ applyIdle
    /\ ingestIdle
    /\ clusterIdle
    /\ ufIdle
    /\ confIdle
    /\ normIdle
    /\ sanIdle
    /\ fpscanIdle
    /\ runscanIdle

NextPart ==
    \/ \E order \in Orders(part.edges), min_size \in MinSizes :
          clusters_as_records(order, min_size)
    \/ \E order \in Orders(part.edges) : build_duplicate_clusters(order)

SpecPart == InitPart /\ [][NextPart]_vars

\* ------------------------------------------------------------------------
\* Claims about the two cluster builders
\* ------------------------------------------------------------------------
\* C29: for a fixed set of tracks and strong edges, the cluster_id that
\* clusters_as_records reports for a member set is the same in every
\* order in which the strong edges are read and for every min_size that
\* keeps the cluster in the result.
C29_ClusterIdStable ==
    part.queries = 2 =>
        \A i \in DOMAIN part.first, j \in DOMAIN part.last :
            part.first[i].files = part.last[j].files
                => part.first[i].cluster_id = part.last[j].cluster_id

\* C30: for every set of strong edges the partition of the track ids that
\* alias_engine computes (build_alias_graph, then connected_components) is
\* the same set of member sets as the partition that
\* cluster_service.build_duplicate_clusters computes with its union-find.
C30_BuildersAgree ==
    part.queries > 0 /\ part.built =>
        part.raw = {{part.dup[r][k] : k \in DOMAIN part.dup[r]} :
                       r \in DOMAIN part.dup}

\* two edges that share a track: both builders report the three tracks as
\* one cluster
C30_Witness ==
    /\ part.queries > 0
    /\ part.built
    /\ part.edges = {<<1, 2>>, <<2, 3>>}
    /\ part.raw = {{1, 2, 3}}
    /\ part.dup = (1 :> <<1, 2, 3>>)

====
